---------------------------- MODULE Spec2Model ----------------------------
(***************************************************************************)
(* A model of the tax-document backend: the W-2 field extractor            *)
(* (extractField / extractMoneyField and the regular expressions they are  *)
(* called with) and the dashboard request handlers around calculate-tax.   *)
(*                                                                         *)
(* Texts are TLA+ strings; a character is a one-character string.          *)
(* Money is an integer number of cents; intermediate tax amounts are in    *)
(* 1/10000 of a dollar, so that the bracket arithmetic is exact.           *)
(***************************************************************************)
EXTENDS Integers, Sequences, FiniteSets, TLC

VARIABLES
    text,        \* extractor: the document text (pdfData.text)
    patterns,    \* extractor: the rule list of the last call
    fn,          \* extractor: which helper the last call was
    result,      \* extractor: what the last call returned
    users,       \* store: User rows, by primary key
    dependents,  \* store: Dependent rows
    nextDepId,   \* store: next Dependent primary key
    request,     \* the last request: its route and its token
    response,    \* the response of the last request
    inflight,    \* requests whose handler has read its row and not yet written it
    succeeded,   \* history: the requests answered with success, by route and user
    server       \* the server process: startServer, the connection, the exit

vars ==
    <<text, patterns, fn, result, users, dependents, nextDepId, request, response,
      inflight, succeeded, server>>

extractVars == <<text, patterns, fn, result>>
storeVars == <<users, dependents, nextDepId, request, response>>

-----------------------------------------------------------------------------
(* Characters and strings *)

CharAt(s, i) == SubSeq(s, i, i)

CharsOf(s) == { CharAt(s, i) : i \in 1..Len(s) }

UpperCase == "ABCDEFGHIJKLMNOPQRSTUVWXYZ"
LowerCase == "abcdefghijklmnopqrstuvwxyz"

\* Case folding of one character, as the i flag compares characters.
FoldMap ==
    [c \in CharsOf(UpperCase) |->
        CharAt(LowerCase, CHOOSE i \in 1..Len(UpperCase) : CharAt(UpperCase, i) = c)]

Fold(c) == IF c \in DOMAIN FoldMap THEN FoldMap[c] ELSE c

\* \d
Digit == CharsOf("0123456789")
\* \s (the white space and line terminators a document text holds)
Space == {" ", "\n", "\t", "\r"}
\* [A-Za-z]
Letter == CharsOf(UpperCase) \cup CharsOf(LowerCase)
\* . (no s flag): any character but a line terminator
LineTerminator == {"\n", "\r"}

\* String.prototype.trim
RECURSIVE TrimLeft(_)
TrimLeft(s) ==
    IF Len(s) > 0 /\ CharAt(s, 1) \in Space
    THEN TrimLeft(SubSeq(s, 2, Len(s)))
    ELSE s

RECURSIVE TrimRight(_)
TrimRight(s) ==
    IF Len(s) > 0 /\ CharAt(s, Len(s)) \in Space
    THEN TrimRight(SubSeq(s, 1, Len(s) - 1))
    ELSE s

Trim(s) == TrimRight(TrimLeft(s))

\* String.prototype.replace(/,/g, '')
RECURSIVE RemoveCommas(_)
RemoveCommas(s) ==
    IF Len(s) = 0 THEN ""
    ELSE IF CharAt(s, 1) = ","
         THEN RemoveCommas(SubSeq(s, 2, Len(s)))
         ELSE CharAt(s, 1) \o RemoveCommas(SubSeq(s, 2, Len(s)))

\* String.prototype.includes, for a one-character needle
Includes(s, c) == \E i \in 1..Len(s) : CharAt(s, i) = c

-----------------------------------------------------------------------------
(* Regular expressions: the constructs the source's patterns use, matched  *)
(* by backtracking in the priority order of ECMAScript (greedy and lazy    *)
(* quantifiers, alternation left to right, leftmost match).  Every         *)
(* pattern of the source has the i flag and one capturing group.           *)

Lit(s) == [t |-> "lit", s |-> s]
Set(cs) == [t |-> "set", cs |-> cs]
AnyChar == [t |-> "any"]
Cat(kids) == [t |-> "cat", kids |-> kids]
Alt(kids) == [t |-> "alt", kids |-> kids]
Rep(kid, min, max, greedy) ==
    [t |-> "rep", kid |-> kid, min |-> min, max |-> max, greedy |-> greedy]
Group(kid) == [t |-> "grp", kid |-> kid]
Bol(m) == [t |-> "bol", m |-> m]
Eol(m) == [t |-> "eol", m |-> m]

Unbounded == -1
Star(kid) == Rep(kid, 0, Unbounded, TRUE)
Plus(kid) == Rep(kid, 1, Unbounded, TRUE)
Opt(kid) == Rep(kid, 0, 1, TRUE)
LazyStar(kid) == Rep(kid, 0, Unbounded, FALSE)
LazyPlus(kid) == Rep(kid, 1, Unbounded, FALSE)

NoMatch == [ok |-> FALSE, pos |-> 0, cap |-> <<>>]

LitAt(s, txt, pos) ==
    /\ pos + Len(s) - 1 <= Len(txt)
    /\ \A i \in 1..Len(s) : Fold(CharAt(txt, pos + i - 1)) = Fold(CharAt(s, i))

\* A node that matches exactly one character, and whether it matches at p.
SingleChar(n) == n.t \in {"set", "any"} \/ (n.t = "lit" /\ Len(n.s) = 1)

CharOk(n, txt, p) ==
    /\ p <= Len(txt)
    /\ CASE n.t = "set" -> CharAt(txt, p) \in n.cs
         [] n.t = "any" -> CharAt(txt, p) \notin LineTerminator
         [] n.t = "lit" -> Fold(CharAt(txt, p)) = Fold(n.s)

\* How many characters from p on a single-character node matches in a row,
\* at most max of them (max = Unbounded: no limit).
RECURSIVE RunLen(_, _, _, _)
RunLen(n, txt, p, max) ==
    IF max = 0 \/ ~CharOk(n, txt, p) THEN 0
    ELSE 1 + RunLen(n, txt, p + 1, IF max = Unbounded THEN Unbounded ELSE max - 1)

\* Run(todo, txt, st): match the nodes of todo one after the other from
\* state st; the first way that succeeds, in backtracking order.
\* TryRep: a quantifier over a single-character node has taken k characters;
\* if the rest does not match, it takes the next count on the way to last
\* (greedy: one fewer; lazy: one more).
RECURSIVE Run(_, _, _), TryRep(_, _, _, _, _)
Run(todo, txt, st) ==
    IF Len(todo) = 0 THEN st
    ELSE
    LET n == Head(todo)
        rest == Tail(todo)
        p == st.pos
    IN
    CASE n.t = "lit" ->
            IF LitAt(n.s, txt, p)
            THEN Run(rest, txt, [st EXCEPT !.pos = p + Len(n.s)])
            ELSE NoMatch
      [] n.t = "set" ->
            IF CharOk(n, txt, p)
            THEN Run(rest, txt, [st EXCEPT !.pos = p + 1])
            ELSE NoMatch
      [] n.t = "any" ->
            IF CharOk(n, txt, p)
            THEN Run(rest, txt, [st EXCEPT !.pos = p + 1])
            ELSE NoMatch
      [] n.t = "cat" -> Run(n.kids \o rest, txt, st)
      [] n.t = "alt" ->
            IF Len(n.kids) = 0 THEN NoMatch
            ELSE LET first == Run(<<Head(n.kids)>> \o rest, txt, st)
                 IN IF first.ok THEN first
                    ELSE Run(<<Alt(Tail(n.kids))>> \o rest, txt, st)
      [] n.t = "rep" /\ SingleChar(n.kid) ->
            LET most == RunLen(n.kid, txt, p, n.max)
            IN IF most < n.min THEN NoMatch
               ELSE IF n.greedy THEN TryRep(rest, txt, st, most, n.min)
               ELSE TryRep(rest, txt, st, n.min, most)
      [] n.t = "rep" /\ ~SingleChar(n.kid) ->
            LET less(k) == IF k = Unbounded THEN Unbounded ELSE k - 1
                again == Rep(n.kid, IF n.min > 0 THEN n.min - 1 ELSE 0,
                             less(n.max), n.greedy)
                \* one more iteration, which must consume something
                more == IF n.max = 0 THEN NoMatch
                        ELSE Run(<<n.kid, [t |-> "adv", from |-> p], again>> \o rest,
                                 txt, st)
                stop == IF n.min > 0 THEN NoMatch ELSE Run(rest, txt, st)
            IN IF n.greedy
               THEN IF more.ok THEN more ELSE stop
               ELSE IF stop.ok THEN stop ELSE more
      [] n.t = "adv" ->
            IF p > n.from THEN Run(rest, txt, st) ELSE NoMatch
      [] n.t = "grp" ->
            Run(<<[t |-> "open"], n.kid, [t |-> "close"]>> \o rest, txt, st)
      [] n.t = "open" -> Run(rest, txt, [st EXCEPT !.cap = <<p>>])
      [] n.t = "close" -> Run(rest, txt, [st EXCEPT !.cap = <<st.cap[1], p>>])
      [] n.t = "bol" ->
            IF p = 1 \/ (n.m /\ CharAt(txt, p - 1) \in LineTerminator)
            THEN Run(rest, txt, st) ELSE NoMatch
      [] n.t = "eol" ->
            IF p = Len(txt) + 1 \/ (n.m /\ CharAt(txt, p) \in LineTerminator)
            THEN Run(rest, txt, st) ELSE NoMatch

TryRep(rest, txt, st, k, last) ==
    LET r == Run(rest, txt, [st EXCEPT !.pos = st.pos + k])
    IN IF r.ok THEN r
       ELSE IF k = last THEN NoMatch
       ELSE TryRep(rest, txt, st, IF k > last THEN k - 1 ELSE k + 1, last)

\* The leftmost match: the first start position from which the pattern matches.
RECURSIVE MatchFrom(_, _, _)
MatchFrom(txt, pattern, start) ==
    IF start > Len(txt) + 1 THEN NoMatch
    ELSE LET r == Run(<<pattern>>, txt, [ok |-> TRUE, pos |-> start, cap |-> <<>>])
         IN IF r.ok THEN r ELSE MatchFrom(txt, pattern, start + 1)

\* String.prototype.match with a non-global pattern: null, or the match array
\* of which m1 is element 1 (def = FALSE: undefined, the group took no part).
Match(txt, pattern) ==
    LET r == MatchFrom(txt, pattern, 1)
    IN IF ~r.ok THEN [matched |-> FALSE, def |-> FALSE, m1 |-> ""]
       ELSE IF Len(r.cap) < 2 THEN [matched |-> TRUE, def |-> FALSE, m1 |-> ""]
       ELSE [matched |-> TRUE, def |-> TRUE,
             m1 |-> SubSeq(txt, r.cap[1], r.cap[2] - 1)]

\* `match && match[1]` as a condition: a match whose group 1 is a non-empty string
Truthy(m) == m.matched /\ m.def /\ m.m1 # ""


-----------------------------------------------------------------------------
(* The rule lists of POST /extract-w2 *)

ColonSpace == Set({":"} \cup Space)
\* [A-Za-z\s,.-]
NameChar == Set(Letter \cup Space \cup {",", ".", "-"})
\* [\d,]
DigitComma == Set(Digit \cup {","})
Ws == Star(Set(Space))
Newline == Lit("\n")

\* [:\s]*([A-Za-z\s,.-]+?) : the tail the name rules share
NameTail == <<Star(ColonSpace), Group(LazyPlus(NameChar))>>
\* [:\s]*\$?([\d,]+\.?\d*) : the tail every money rule ends with
MoneyTail ==
    <<Star(ColonSpace), Opt(Lit("$")),
      Group(Cat(<<Plus(DigitComma), Opt(Lit(".")), Star(Set(Digit))>>))>>

employeeNamePatterns ==
    << \* /Employee's name[:\s]*([A-Za-z\s,.-]+?)(?:\n|$)/i
       Cat(<<Lit("Employee's name")>> \o NameTail
           \o <<Alt(<<Newline, Eol(FALSE)>>)>>),
       \* /Employee[:\s]*([A-Za-z\s,.-]+?)(?:\n|Employer)/i
       Cat(<<Lit("Employee")>> \o NameTail
           \o <<Alt(<<Newline, Lit("Employer")>>)>>),
       \* /^([A-Za-z\s,.-]+?)(?:\n.*?SSN|Social Security)/im
       Cat(<<Bol(TRUE), Group(LazyPlus(NameChar)),
             Alt(<<Cat(<<Newline, LazyStar(AnyChar), Lit("SSN")>>),
                   Lit("Social Security")>>)>>) >>

employerNamePatterns ==
    << \* /Employer's name[:\s]*([A-Za-z\s,.-]+?)(?:\n|$)/i
       Cat(<<Lit("Employer's name")>> \o NameTail
           \o <<Alt(<<Newline, Eol(FALSE)>>)>>),
       \* /Employer[:\s]*([A-Za-z\s,.-]+?)(?:\n|EIN)/i
       Cat(<<Lit("Employer")>> \o NameTail
           \o <<Alt(<<Newline, Lit("EIN")>>)>>),
       \* /Company[:\s]*([A-Za-z\s,.-]+?)(?:\n|$)/i
       Cat(<<Lit("Company")>> \o NameTail
           \o <<Alt(<<Newline, Eol(FALSE)>>)>>) >>

box1_wagesPatterns ==
    << \* /1\s*Wages,?\s*tips,?\s*other\s*compensation[:\s]*\$?([\d,]+\.?\d*)/i
       Cat(<<Lit("1"), Ws, Lit("Wages"), Opt(Lit(",")), Ws, Lit("tips"),
             Opt(Lit(",")), Ws, Lit("other"), Ws, Lit("compensation")>>
           \o MoneyTail),
       \* /Box\s*1[:\s]*\$?([\d,]+\.?\d*)/i
       Cat(<<Lit("Box"), Ws, Lit("1")>> \o MoneyTail),
       \* /Wages[:\s]*\$?([\d,]+\.?\d*)/i
       Cat(<<Lit("Wages")>> \o MoneyTail) >>

box2_federalTaxPatterns ==
    << \* /2\s*Federal\s*income\s*tax\s*withheld[:\s]*\$?([\d,]+\.?\d*)/i
       Cat(<<Lit("2"), Ws, Lit("Federal"), Ws, Lit("income"), Ws, Lit("tax"),
             Ws, Lit("withheld")>> \o MoneyTail),
       \* /Box\s*2[:\s]*\$?([\d,]+\.?\d*)/i
       Cat(<<Lit("Box"), Ws, Lit("2")>> \o MoneyTail),
       \* /Federal\s*tax\s*withheld[:\s]*\$?([\d,]+\.?\d*)/i
       Cat(<<Lit("Federal"), Ws, Lit("tax"), Ws, Lit("withheld")>> \o MoneyTail) >>

box3_socialSecurityWagesPatterns ==
    << \* /3\s*Social\s*security\s*wages[:\s]*\$?([\d,]+\.?\d*)/i
       Cat(<<Lit("3"), Ws, Lit("Social"), Ws, Lit("security"), Ws, Lit("wages")>>
           \o MoneyTail),
       \* /Box\s*3[:\s]*\$?([\d,]+\.?\d*)/i
       Cat(<<Lit("Box"), Ws, Lit("3")>> \o MoneyTail),
       \* /Social\s*security\s*wages[:\s]*\$?([\d,]+\.?\d*)/i
       Cat(<<Lit("Social"), Ws, Lit("security"), Ws, Lit("wages")>> \o MoneyTail) >>

box4_socialSecurityTaxPatterns ==
    << \* /4\s*Social\s*security\s*tax\s*withheld[:\s]*\$?([\d,]+\.?\d*)/i
       Cat(<<Lit("4"), Ws, Lit("Social"), Ws, Lit("security"), Ws, Lit("tax"),
             Ws, Lit("withheld")>> \o MoneyTail),
       \* /Box\s*4[:\s]*\$?([\d,]+\.?\d*)/i
       Cat(<<Lit("Box"), Ws, Lit("4")>> \o MoneyTail),
       \* /Social\s*security\s*tax[:\s]*\$?([\d,]+\.?\d*)/i
       Cat(<<Lit("Social"), Ws, Lit("security"), Ws, Lit("tax")>> \o MoneyTail) >>

box5_medicareWagesPatterns ==
    << \* /5\s*Medicare\s*wages\s*and\s*tips[:\s]*\$?([\d,]+\.?\d*)/i
       Cat(<<Lit("5"), Ws, Lit("Medicare"), Ws, Lit("wages"), Ws, Lit("and"),
             Ws, Lit("tips")>> \o MoneyTail),
       \* /Box\s*5[:\s]*\$?([\d,]+\.?\d*)/i
       Cat(<<Lit("Box"), Ws, Lit("5")>> \o MoneyTail),
       \* /Medicare\s*wages[:\s]*\$?([\d,]+\.?\d*)/i
       Cat(<<Lit("Medicare"), Ws, Lit("wages")>> \o MoneyTail) >>

box6_medicareTaxPatterns ==
    << \* /6\s*Medicare\s*tax\s*withheld[:\s]*\$?([\d,]+\.?\d*)/i
       Cat(<<Lit("6"), Ws, Lit("Medicare"), Ws, Lit("tax"), Ws, Lit("withheld")>>
           \o MoneyTail),
       \* /Box\s*6[:\s]*\$?([\d,]+\.?\d*)/i
       Cat(<<Lit("Box"), Ws, Lit("6")>> \o MoneyTail),
       \* /Medicare\s*tax[:\s]*\$?([\d,]+\.?\d*)/i
       Cat(<<Lit("Medicare"), Ws, Lit("tax")>> \o MoneyTail) >>

\* Rule lists that are not the source's: inputs that exercise a rule that
\* matches with an empty group 1, and one that matches with group 1 unmatched.
genericPatterns ==
    << \* /Wages[:\s]*(\d*)/i
       Cat(<<Lit("Wages"), Star(ColonSpace), Group(Star(Set(Digit)))>>),
       \* /Total(?:\s*(\d+))?/i
       Cat(<<Lit("Total"), Opt(Cat(<<Ws, Group(Plus(Set(Digit)))>>))>>),
       \* /(\s*\d+)/
       Group(Cat(<<Ws, Plus(Set(Digit))>>)) >>

NameFields == {"employeeName", "employerName"}
MoneyFields == {"box1_wages", "box2_federalTax", "box3_socialSecurityWages",
                "box4_socialSecurityTax", "box5_medicareWages", "box6_medicareTax"}

\* The rule list extract-w2 passes for each field of the record.
FieldPatterns(field) ==
    CASE field = "employeeName" -> employeeNamePatterns
      [] field = "employerName" -> employerNamePatterns
      [] field = "box1_wages" -> box1_wagesPatterns
      [] field = "box2_federalTax" -> box2_federalTaxPatterns
      [] field = "box3_socialSecurityWages" -> box3_socialSecurityWagesPatterns
      [] field = "box4_socialSecurityTax" -> box4_socialSecurityTaxPatterns
      [] field = "box5_medicareWages" -> box5_medicareWagesPatterns
      [] field = "box6_medicareTax" -> box6_medicareTaxPatterns
      [] field = "generic" -> genericPatterns

-----------------------------------------------------------------------------
(* The extraction helpers.  A returned value is null or a string. *)

Null == [null |-> TRUE, s |-> ""]
Str(s) == [null |-> FALSE, s |-> s]

\* extractField with a loop that keeps the last successful rule, not the first
RECURSIVE extractField_lastWins(_, _)
extractField_lastWins(txt, pats) ==
    IF Len(pats) = 0 THEN Null
    ELSE LET match == Match(txt, Head(pats))
             later == extractField_lastWins(txt, Tail(pats))
         IN IF ~later.null THEN later
            ELSE IF Truthy(match) THEN Str(Trim(match.m1)) ELSE Null

\* function extractField(text, patterns)
RECURSIVE extractField(_, _)
extractField(txt, pats) ==
    IF Len(pats) = 0 THEN Null
    ELSE LET match == Match(txt, Head(pats))
         IN IF Truthy(match)
            THEN Str(Trim(match.m1))
            ELSE extractField(txt, Tail(pats))

\* String.prototype.replace(',', ''): the first comma only
RECURSIVE RemoveFirstComma(_)
RemoveFirstComma(s) ==
    IF Len(s) = 0 THEN ""
    ELSE IF CharAt(s, 1) = "," THEN SubSeq(s, 2, Len(s))
         ELSE CharAt(s, 1) \o RemoveFirstComma(SubSeq(s, 2, Len(s)))

\* extractMoneyField with a replace that is not global
RECURSIVE extractMoneyField_firstComma(_, _)
extractMoneyField_firstComma(txt, pats) ==
    IF Len(pats) = 0 THEN Null
    ELSE LET match == Match(txt, Head(pats))
         IN IF Truthy(match)
            THEN LET amount == RemoveFirstComma(match.m1)
                 IN Str(IF Includes(amount, ".") THEN amount ELSE amount \o ".00")
            ELSE extractMoneyField_firstComma(txt, Tail(pats))

\* extractMoneyField that answers the placeholder itself when no rule matches
RECURSIVE extractMoneyField_placeholder(_, _)
extractMoneyField_placeholder(txt, pats) ==
    IF Len(pats) = 0 THEN Str("0.00")
    ELSE LET match == Match(txt, Head(pats))
         IN IF Truthy(match)
            THEN LET amount == RemoveCommas(match.m1)
                 IN Str(IF Includes(amount, ".") THEN amount ELSE amount \o ".00")
            ELSE extractMoneyField_placeholder(txt, Tail(pats))

\* function extractMoneyField(text, patterns)
RECURSIVE extractMoneyField(_, _)
extractMoneyField(txt, pats) ==
    IF Len(pats) = 0 THEN Null
    ELSE LET match == Match(txt, Head(pats))
         IN IF Truthy(match)
            THEN LET amount == RemoveCommas(match.m1)
                 IN Str(IF Includes(amount, ".") THEN amount ELSE amount \o ".00")
            ELSE extractMoneyField(txt, Tail(pats))

-----------------------------------------------------------------------------
(* The extractor as a state machine: a document text, and one call of a    *)
(* helper on it with a rule list.  The helpers are pure: a call's result   *)
(* depends on its arguments alone, so a run makes one call.                *)

\* Lines a document text is made of.
DocLines ==
    << "Wages: 1,234",
       "Box 1: $1,234,567.5",
       "1 Wages, tips, other compensation 1,234.567",
       "Wages 12.",
       "Employee's name: Ann Lee",
       "Employee: Bob",
       "Employee's name: ",
       "123-45-6789 SSN",
       "Employer's name: Acme, Inc.",
       "Company: Foo EIN",
       "2 Federal income tax withheld $300.00",
       "Box 3: 5,0",
       "4 Social security tax withheld: 434",
       "Medicare wages and tips 9",
       "6 Medicare tax withheld 2.5",
       "Total due",
       "" >>

\* The most lines a document text has.
MaxLines == 2

RECURSIVE Join(_)
Join(ls) ==
    IF Len(ls) = 0 THEN ""
    ELSE IF Len(ls) = 1 THEN DocLines[ls[1]]
    ELSE DocLines[ls[1]] \o "\n" \o Join(Tail(ls))

Texts ==
    { Join(ls) : ls \in UNION { [1..n -> 1..Len(DocLines)] : n \in 0..MaxLines } }

\* A rule list: rules of one field's list, each at most once, in some order.
Orders(field) ==
    LET n == Len(FieldPatterns(field))
    IN { o \in UNION { [1..k -> 1..n] : k \in 0..n } :
            \A i, j \in 1..Len(o) : i # j => o[i] # o[j] }

PatternList(ps) ==
    [i \in 1..Len(ps.order) |-> FieldPatterns(ps.field)[ps.order[i]]]

NoPatterns == [field |-> "none", order |-> <<>>]

\* const xxx = extractField(text, [...])
CallExtractField ==
    /\ fn = "none"
    /\ \E field \in NameFields \cup {"generic"} :
        \E order \in Orders(field) :
          /\ fn' = "extractField"
          /\ patterns' = [field |-> field, order |-> order]
          /\ result' = extractField(text, PatternList(patterns'))
          /\ UNCHANGED <<text, storeVars, inflight, succeeded, server>>

\* const xxx = extractMoneyField(text, [...])
CallExtractMoneyField ==
    /\ fn = "none"
    /\ \E field \in MoneyFields \cup {"generic"} :
        \E order \in Orders(field) :
          /\ fn' = "extractMoneyField"
          /\ patterns' = [field |-> field, order |-> order]
          /\ result' = extractMoneyField(text, PatternList(patterns'))
          /\ UNCHANGED <<text, storeVars, inflight, succeeded, server>>

\* Values of the income mapping: a number of cents, null, an object
JNum(n) == [k |-> "num", n |-> n]
JNull == [k |-> "null", n |-> 0]
JObj == [k |-> "obj", n |-> 0]
JTrue == [k |-> "bool", n |-> 1]
\* a string that does not convert to a number, as "0[object Object]"
JNaNString == [k |-> "str", n |-> 0]

NoCalculation ==
    [ totalIncome |-> JNum(0), dependentsCount |-> 0, dependentDeduction |-> 0,
      taxOwed |-> 0, effectiveRate |-> 0 ]

\* the process once startServer has run through: connected, synchronised,
\* listening
Serving ==
    [ pc |-> "done", authenticated |-> TRUE, synced |-> TRUE, db |-> "open",
      listening |-> TRUE, exited |-> FALSE, code |-> 0, closing |-> {} ]

InitStore ==
    /\ users = <<>>
    /\ dependents = {}
    /\ nextDepId = 1
    /\ request = [route |-> "none", token |-> [kind |-> "none", key |-> "", uid |-> ""]]
    /\ response = [route |-> "none", status |-> 0, calculation |-> NoCalculation]
    /\ inflight = <<>>
    /\ succeeded = {}
    /\ server = Serving

InitExtract ==
    /\ text \in Texts
    /\ patterns = NoPatterns
    /\ fn = "none"
    /\ result = Null
    /\ InitStore

NextExtract == CallExtractField \/ CallExtractMoneyField

SpecExtract == InitExtract /\ [][NextExtract]_vars

-----------------------------------------------------------------------------
(* Properties of the extraction helpers, over the call a state records *)

Called == fn # "none"
RuleCount == Len(patterns.order)
\* What text.match gives for rule i of the call's list
RuleMatch(i) == Match(text, PatternList(patterns)[i])
\* The rules of the list whose group 1 is a non-empty string
Succeeding == { i \in 1..RuleCount : Truthy(RuleMatch(i)) }
Min(S) == CHOOSE i \in S : \A j \in S : i <= j
\* The list with the rules at i and j exchanged
Swapped(ps, i, j) ==
    [k \in 1..Len(ps) |-> IF k = i THEN ps[j] ELSE IF k = j THEN ps[i] ELSE ps[k]]

CountChar(s, c) == Cardinality({ i \in 1..Len(s) : CharAt(s, i) = c })

\* base is cap with its commas left out: the other characters, in order
IsCommaStripped(cap, base) ==
    LET keep == { i \in 1..Len(cap) : CharAt(cap, i) # "," }
        commasBefore(i) == Cardinality({ j \in 1..i : CharAt(cap, j) = "," })
    IN /\ Len(base) = Cardinality(keep)
       /\ \A i \in keep : CharAt(base, i - commasBefore(i)) = CharAt(cap, i)

\* C1: extractField returns the trimmed capture of the lowest-index rule that
\* matches with a non-empty capture (null when there is none); when two
\* rules both succeed and the earlier one is the winner, exchanging them
\* makes the result the capture of the rule now listed first.
C1_FirstSuccessWins ==
    fn = "extractField" =>
        /\ Succeeding = {} => result = Null
        /\ Succeeding # {} =>
             LET first == Min(Succeeding)
             IN /\ result = Str(Trim(RuleMatch(first).m1))
                /\ \A j \in Succeeding \ {first} :
                     extractField(text, Swapped(PatternList(patterns), first, j))
                       = Str(Trim(RuleMatch(j).m1))

\* Two rules of a name field's list succeed with different captures, and the
\* result is the earlier one's.
C1_Witness ==
    /\ fn = "extractField"
    /\ patterns.field \in NameFields
    /\ \E i, j \in Succeeding :
         /\ i < j
         /\ i = Min(Succeeding)
         /\ Trim(RuleMatch(i).m1) # Trim(RuleMatch(j).m1)
         /\ result = Str(Trim(RuleMatch(i).m1))

\* C2: extractField never returns an empty string; a rule whose capture is
\* empty, unmatched or empty after trimming does not end the search, and the
\* result is null only if no rule yields a capture non-empty after trimming.
C2_NeverEmptyString ==
    fn = "extractField" =>
        LET good == { i \in 1..RuleCount :
                        Truthy(RuleMatch(i)) /\ Trim(RuleMatch(i).m1) # "" }
        IN /\ ~result.null => result.s # ""
           /\ result.null <=> good = {}
           /\ good # {} => result = Str(Trim(RuleMatch(Min(good)).m1))

\* The capture the call's result rests on
FirstCapture == RuleMatch(Min(Succeeding)).m1

\* C3: for a capture with thousands separators, extractMoneyField returns a
\* string with no comma and exactly one decimal point, followed by exactly
\* two digits.
C3_TwoDecimalDigits ==
    (fn = "extractMoneyField" /\ Succeeding # {} /\ Includes(FirstCapture, ",")) =>
        LET r == result.s
            n == Len(r)
        IN /\ ~result.null
           /\ ~Includes(r, ",")
           /\ CountChar(r, ".") = 1
           /\ n >= 3
           /\ CharAt(r, n - 2) = "."
           /\ CharAt(r, n - 1) \in Digit
           /\ CharAt(r, n) \in Digit

\* C4: extractMoneyField answers by the first successful rule, as
\* extractField does; the result is the capture with every comma removed,
\* followed by ".00" exactly when the capture holds no ".", and it is a
\* string without a comma.
C4_MoneyNormalisation ==
    fn = "extractMoneyField" =>
        /\ Succeeding = {} => result = Null
        /\ Succeeding # {} =>
             LET cap == FirstCapture
                 r == result.s
             IN /\ ~result.null
                /\ ~Includes(r, ",")
                /\ IF Includes(cap, ".")
                   THEN IsCommaStripped(cap, r)
                   ELSE /\ Len(r) >= 3
                        /\ SubSeq(r, Len(r) - 2, Len(r)) = ".00"
                        /\ IsCommaStripped(cap, SubSeq(r, 1, Len(r) - 3))

\* A capture with two thousands separators and no fraction got ".00"; an
\* earlier rule of the list did not succeed.
C4_Witness ==
    /\ fn = "extractMoneyField"
    /\ Succeeding # {}
    /\ Min(Succeeding) > 1
    /\ CountChar(FirstCapture, ",") >= 1
    /\ ~Includes(FirstCapture, ".")
    /\ result = Str(RemoveCommas(FirstCapture) \o ".00")

\* C5: when no rule of the list matches the text, extractField and
\* extractMoneyField return null.
C5_NoMatchIsNull ==
    (Called /\ \A i \in 1..RuleCount : ~RuleMatch(i).matched) => result = Null

\* A field's whole list was tried on a text that is not empty, none of its
\* rules matched, and the helper returned null.
C5_Witness ==
    /\ fn = "extractMoneyField"
    /\ text # ""
    /\ RuleCount = Len(FieldPatterns(patterns.field))
    /\ \A i \in 1..RuleCount : ~RuleMatch(i).matched
    /\ result = Null

-----------------------------------------------------------------------------
(* The store and the values in it.                                         *)
(* A scalar column holds Null or Str(s).  A JSONB column holds NullMap or  *)
(* Map(m), m a function from keys to values.  A value of the income        *)
(* mapping is a number of cents, null, or an object (such as w2Data).      *)

NullMap == [null |-> TRUE, m |-> <<>>]
Map(m) == [null |-> FALSE, m |-> m]
EmptyMap == Map(<<>>)

\* { ...a, ...b }: spreading null adds nothing
Spread(a, b) ==
    LET am == IF a.null THEN <<>> ELSE a.m
        bm == IF b.null THEN <<>> ELSE b.m
    IN Map([key \in (DOMAIN am) \cup (DOMAIN bm) |->
                IF key \in DOMAIN bm THEN bm[key] ELSE am[key]])

\* User.income defaultValue
DefaultIncome ==
    Map([key \in {"wages", "selfEmployment", "interest", "dividends",
                  "capitalGains", "other"} |-> JNum(0)])

\* User.deductions defaultValue (itemizedDeductions is an object)
DefaultDeductions ==
    Map([key \in {"standardDeduction", "itemizedDeductions"} |->
            IF key = "standardDeduction" THEN JTrue ELSE JObj])

\* The columns of a new User row that the handlers below read or write
DefaultUser ==
    [ firstName |-> Null,
      lastName |-> Null,
      lastLogin |-> Null,
      filingStatus |-> Str("single"),
      taxClassification |-> Str("individual"),
      businessName |-> Null,
      ssn |-> Null,
      ein |-> Null,
      address |-> EmptyMap,
      income |-> DefaultIncome,
      deductions |-> DefaultDeductions,
      formCompletionStatus |-> Str("not_started"),
      \* set by upload-w2 and read by extract-w2
      w2FileName |-> Null ]

UserIds == {"u1", "u2"}

\* ENUM columns
FilingStatuses ==
    {"single", "married_filing_jointly", "married_filing_separately",
     "head_of_household", "qualifying_widow"}
TaxClassifications ==
    {"individual", "sole_proprietor", "c_corporation", "s_corporation",
     "partnership", "trust_estate", "llc", "other"}

-----------------------------------------------------------------------------
(* Requests.  A request carries no token, a token that does not verify, or *)
(* a token whose payload's user object names the user under the key "id"   *)
(* or under the key "userId".                                              *)

NoToken == [kind |-> "none", key |-> "", uid |-> ""]
BadToken == [kind |-> "bad", key |-> "", uid |-> ""]
ValidTokens ==
    { [kind |-> "valid", key |-> key, uid |-> u] : key \in {"id", "userId"}, u \in UserIds }
Tokens == {NoToken, BadToken} \cup ValidTokens

Undefined == "undefined"

\* the middleware without the catch around jwt.verify: every token that is
\* present goes on to the handler
auth_lenient(token) == token.kind # "none"

\* middleware/auth: TRUE when next() is called, with req.user = decoded.user
auth(token) == token.kind = "valid"

\* req.user.id and req.user.userId
ReqUserId(token) == IF token.key = "id" THEN token.uid ELSE Undefined
ReqUserUserId(token) == IF token.key = "userId" THEN token.uid ELSE Undefined

\* User.findByPk: the row, when there is one
Found(pk) == pk \in DOMAIN users

Request(route, token) == [route |-> route, token |-> token]

Respond(route, status, calc) ==
    [route |-> route, status |-> status, calculation |-> calc]

\* a response whose body carries a stored record (data: ...)
RespondData(route, status, data) ==
    [route |-> route, status |-> status, calculation |-> NoCalculation, data |-> data]

\* an entry of the history: a request of user uid on route answered with success
Done(route, uid) == [route |-> route, uid |-> uid]

\* res.status(401) of the middleware
Unauthorized(route) == Respond(route, 401, NoCalculation)

-----------------------------------------------------------------------------
(* GET /calculate-tax.  Money is in cents; the tax before rounding is in   *)
(* 1/10000 of a dollar (cents times a rate in percent).                    *)

\* upper bounds of the first three brackets, in cents
Bracket1Max == 1027500
Bracket2Max == 4177500
Bracket3Max == 8945000
\* base amounts of the second to fourth bracket, in cents
Bracket2Base == 102750
Bracket3Base == 480750
Bracket4Base == 1521350
\* marginal rates, in percent
Bracket1Rate == 10
Bracket2Rate == 12
Bracket3Rate == 22
Bracket4Rate == 24
\* deduction per dependent, in cents
DependentDeductionAmount == 200000

\* Math.round(num / den) for num >= 0, den > 0: halves go up
RoundDiv(num, den) == (2 * num + den) \div (2 * den)

\* Object.values(income).reduce((sum, val) => sum + (val || 0), 0)
RECURSIVE SumValues(_, _)
SumValues(m, keys) ==
    IF keys = {} THEN JNum(0)
    ELSE LET key == CHOOSE x \in keys : TRUE
             sum == SumValues(m, keys \ {key})
             val == m[key]
         IN IF sum.k = "str" \/ val.k \in {"obj", "str"} THEN JNaNString
            ELSE JNum(sum.n + val.n)

totalIncomeOf(income) ==
    IF income.null THEN JNum(0) ELSE SumValues(income.m, DOMAIN income.m)

\* totalIncome > 0 and totalIncome <= bound: a string that is no number
\* compares false
Positive(total) == total.k = "num" /\ total.n > 0

\* the if-chain with < for <=: an income on a bound falls in the next bracket
BracketTax_strictBounds(total) ==
    IF Positive(total)
    THEN IF total.n < Bracket1Max
         THEN total.n * Bracket1Rate
         ELSE IF total.n < Bracket2Max
         THEN Bracket2Base * 100 + (total.n - Bracket1Max) * Bracket2Rate
         ELSE IF total.n < Bracket3Max
         THEN Bracket3Base * 100 + (total.n - Bracket2Max) * Bracket3Rate
         ELSE Bracket4Base * 100 + (total.n - Bracket3Max) * Bracket4Rate
    ELSE 0

\* the if-chain without the base amounts: each bracket taxes only its own part
BracketTax_noBase(total) ==
    IF Positive(total)
    THEN IF total.n <= Bracket1Max
         THEN total.n * Bracket1Rate
         ELSE IF total.n <= Bracket2Max
         THEN (total.n - Bracket1Max) * Bracket2Rate
         ELSE IF total.n <= Bracket3Max
         THEN (total.n - Bracket2Max) * Bracket3Rate
         ELSE (total.n - Bracket3Max) * Bracket4Rate
    ELSE 0

\* the if-chain of the handler; the result is in 1/10000 of a dollar
BracketTax(total) ==
    IF Positive(total)
    THEN IF total.n <= Bracket1Max
         THEN total.n * Bracket1Rate
         ELSE IF total.n <= Bracket2Max
         THEN Bracket2Base * 100 + (total.n - Bracket1Max) * Bracket2Rate
         ELSE IF total.n <= Bracket3Max
         THEN Bracket3Base * 100 + (total.n - Bracket2Max) * Bracket3Rate
         ELSE Bracket4Base * 100 + (total.n - Bracket3Max) * Bracket4Rate
    ELSE 0

\* Math.abs where Math.max(0, .) belongs
Max0_abs(x) == IF x > 0 THEN x ELSE 0 - x

\* no clamp at all
Max0_none(x) == x

\* Math.max(0, x)
Max0(x) == IF x > 0 THEN x ELSE 0

\* the calculation with a taxOwed that outlives the request: each answer adds
\* to the tax of the answer before
Calculation_accumulating(income, dependentsCount) ==
    LET totalIncome == totalIncomeOf(income)
        dependentDeduction == dependentsCount * DependentDeductionAmount
        taxOwed == response.calculation.taxOwed * 100
                     + Max0(BracketTax(totalIncome) - dependentDeduction * 100)
    IN [ totalIncome |-> totalIncome,
         dependentsCount |-> dependentsCount,
         dependentDeduction |-> dependentDeduction,
         taxOwed |-> RoundDiv(taxOwed, 100) % 100000000,
         effectiveRate |-> 0 ]

\* the calculation object of the response
Calculation(income, dependentsCount) ==
    LET totalIncome == totalIncomeOf(income)
        dependentDeduction == dependentsCount * DependentDeductionAmount
        \* Math.max(0, taxOwed - dependentDeduction)
        taxOwed == Max0(BracketTax(totalIncome) - dependentDeduction * 100)
    IN [ totalIncome |-> totalIncome,
         dependentsCount |-> dependentsCount,
         dependentDeduction |-> dependentDeduction,
         \* Math.round(taxOwed * 100) / 100, in cents
         taxOwed |-> RoundDiv(taxOwed, 100),
         \* Math.round((taxOwed / totalIncome) * 10000) / 100, in 1/100 percent
         effectiveRate |->
            IF Positive(totalIncome)
            THEN 100 * (taxOwed \div totalIncome.n)
                 + RoundDiv(100 * (taxOwed % totalIncome.n), totalIncome.n)
            ELSE 0 ]

\* Dependent.count() without the where clause
DependentCount_all(userId) == Cardinality(dependents)

\* Dependent.count({ where: { userId } })
DependentCount(userId) ==
    Cardinality({ d \in dependents : d.userId = userId })

\* calculate-tax that saves: a successful calculation marks the form completed
CalculateTax_saving(token, dbError) ==
    LET userId == ReqUserUserId(token)
        status == IF ~auth(token) THEN 401
                  ELSE IF dbError THEN 500
                  ELSE IF ~Found(userId) THEN 404
                  ELSE 200
    IN /\ request' = Request("calculate-tax", token)
       /\ response' =
            Respond("calculate-tax", status,
                    IF status = 200
                    THEN Calculation(users[userId].income, DependentCount(userId))
                    ELSE NoCalculation)
       /\ users' = IF status = 200
                   THEN [users EXCEPT ![userId].formCompletionStatus = Str("completed")]
                   ELSE users
       /\ UNCHANGED <<dependents, nextDepId, extractVars, inflight, succeeded, server>>

\* router.get('/calculate-tax', auth, ...); dbError: a query of the handler
\* throws (the database refuses it, or cannot be reached), which the catch
\* block answers with 500
CalculateTax(token, dbError) ==
    /\ request' = Request("calculate-tax", token)
    /\ response' =
         IF ~auth(token) THEN Unauthorized("calculate-tax")
         ELSE IF dbError THEN Respond("calculate-tax", 500, NoCalculation)
         ELSE IF ~Found(ReqUserUserId(token))
         THEN Respond("calculate-tax", 404, NoCalculation)
         ELSE Respond("calculate-tax", 200,
                      Calculation(users[ReqUserUserId(token)].income,
                                  DependentCount(ReqUserUserId(token))))
    /\ UNCHANGED <<users, dependents, nextDepId, extractVars, inflight, succeeded, server>>

-----------------------------------------------------------------------------
(* The other handlers that write what calculate-tax reads *)

Has(body, key) == key \in DOMAIN body

\* `if (x)` for a scalar of the body: present, not null, not ''
TruthyScalar(body, key) == Has(body, key) /\ ~body[key].null /\ body[key].s # ""
\* `if (x)` for an object of the body: present and not null
TruthyObject(body, key) == Has(body, key) /\ ~body[key].null

\* body(...).optional().isIn([...]): a value that is given must be listed
ValidEnum(body, key, allowed) ==
    Has(body, key) => (~body[key].null /\ body[key].s \in allowed)

\* body(...).optional().trim(): the sanitized value of a field that is given
Trimmed(v) == IF v.null THEN Str("") ELSE Str(Trim(v.s))

\* a row with the columns of `changes` set (instance.update)
Updated(row, changes) ==
    [col \in DOMAIN row |-> IF col \in DOMAIN changes THEN changes[col] ELSE row[col]]

\* A new account (User.create with the defaults of the model).
Register(u) ==
    /\ u \notin DOMAIN users
    /\ users' = [x \in (DOMAIN users) \cup {u} |->
                    IF x = u THEN DefaultUser ELSE users[x]]
    /\ request' = Request("register", NoToken)
    /\ response' = Respond("register", 201, NoCalculation)
    /\ UNCHANGED <<dependents, nextDepId, extractVars, inflight, succeeded, server>>

\* updateData with the objects of the body put in place of the stored ones
TaxInfoUpdate_replace(user, body) ==
    LET scalars == { key \in {"filingStatus", "taxClassification"} :
                        TruthyScalar(body, key) }
        trimmed == { key \in {"businessName", "ssn", "ein"} : Has(body, key) }
        merged == { key \in {"address", "income", "deductions"} :
                        TruthyObject(body, key) }
    IN [col \in scalars \cup trimmed \cup merged \cup {"formCompletionStatus"} |->
            IF col \in scalars THEN body[col]
            ELSE IF col \in trimmed THEN Trimmed(body[col])
            ELSE IF col \in merged THEN body[col]
            ELSE Str("in_progress")]

\* updateData of PUT /tax-info
TaxInfoUpdate(user, body) ==
    LET scalars == { key \in {"filingStatus", "taxClassification"} :
                        TruthyScalar(body, key) }
        trimmed == { key \in {"businessName", "ssn", "ein"} : Has(body, key) }
        merged == { key \in {"address", "income", "deductions"} :
                        TruthyObject(body, key) }
    IN [col \in scalars \cup trimmed \cup merged \cup {"formCompletionStatus"} |->
            IF col \in scalars THEN body[col]
            ELSE IF col \in trimmed THEN Trimmed(body[col])
            ELSE IF col \in merged THEN Spread(user[col], body[col])
            ELSE Str("in_progress")]

\* router.put('/tax-info', auth, [...], ...)
PutTaxInfo(token, body) ==
    LET userId == ReqUserUserId(token)
        valid == /\ ValidEnum(body, "filingStatus", FilingStatuses)
                 /\ ValidEnum(body, "taxClassification", TaxClassifications)
        status == IF ~auth(token) THEN 401
                  ELSE IF ~valid THEN 400
                  ELSE IF ~Found(userId) THEN 404
                  ELSE 200
    IN /\ request' = Request("tax-info", token)
       /\ response' = Respond("tax-info", status, NoCalculation)
       /\ users' = IF status = 200
                   THEN [users EXCEPT ![userId] =
                            Updated(users[userId], TaxInfoUpdate(users[userId], body))]
                   ELSE users
       /\ UNCHANGED <<dependents, nextDepId, extractVars, inflight, succeeded, server>>

\* the columns PUT /me passes to user.update; those the body leaves
\* undefined are not written
MeColumns ==
    {"firstName", "lastName", "filingStatus", "taxClassification",
     "businessName", "ssn", "ein", "address", "income", "deductions"}

MeUpdate(body) ==
    [col \in ((DOMAIN body) \cap MeColumns) \cup {"lastLogin"} |->
        IF col = "lastLogin" THEN Str("now") ELSE body[col]]

\* router.put('/me', auth, ...): a value no ENUM column admits makes the
\* update throw
PutMe(token, body) ==
    LET id == ReqUserId(token)
        admitted == /\ Has(body, "filingStatus") =>
                          (body.filingStatus.null \/ body.filingStatus.s \in FilingStatuses)
                    /\ Has(body, "taxClassification") =>
                          (body.taxClassification.null
                             \/ body.taxClassification.s \in TaxClassifications)
        status == IF ~auth(token) THEN 401
                  ELSE IF ~Found(id) THEN 404
                  ELSE IF ~admitted THEN 500
                  ELSE 200
    IN /\ request' = Request("me", token)
       /\ response' = Respond("me", status, NoCalculation)
       /\ users' = IF status = 200
                   THEN [users EXCEPT ![id] = Updated(users[id], MeUpdate(body))]
                   ELSE users
       /\ UNCHANGED <<dependents, nextDepId, extractVars, inflight, succeeded, server>>

\* The most Dependent rows ever created.
MaxDependents == 2

\* ENUM column Dependent.relationship
Relationships == {"child", "spouse", "parent", "other"}

\* router.post('/add-dependent', auth, [...], ...): name and relationship
\* must not be empty; a row without userId, or with a relationship the
\* column does not admit, is refused by the database
AddDependent(token, name, relationship) ==
    LET userId == ReqUserUserId(token)
        status == IF ~auth(token) THEN 401
                  ELSE IF name = "" \/ relationship = "" THEN 400
                  ELSE IF userId = Undefined \/ relationship \notin Relationships
                  THEN 500
                  ELSE 200
    IN /\ nextDepId <= MaxDependents
       /\ request' = Request("add-dependent", token)
       /\ response' = Respond("add-dependent", status, NoCalculation)
       /\ dependents' =
            IF status = 200
            THEN dependents \cup
                   {[id |-> nextDepId, userId |-> userId, name |-> Trim(name),
                     relationship |-> Trim(relationship)]}
            ELSE dependents
       /\ nextDepId' = IF status = 200 THEN nextDepId + 1 ELSE nextDepId
       /\ UNCHANGED <<users, extractVars, inflight, succeeded, server>>

\* router.delete('/remove-dependent/:dependentId', auth, ...): a where
\* clause with an undefined userId makes findOne throw
RemoveDependent(token, dependentId) ==
    LET userId == ReqUserUserId(token)
        found == { d \in dependents : d.id = dependentId /\ d.userId = userId }
        status == IF ~auth(token) THEN 401
                  ELSE IF userId = Undefined THEN 500
                  ELSE IF found = {} THEN 404
                  ELSE 200
    IN /\ request' = Request("remove-dependent", token)
       /\ response' = Respond("remove-dependent", status, NoCalculation)
       /\ dependents' = IF status = 200 THEN dependents \ found ELSE dependents
       /\ UNCHANGED <<users, nextDepId, extractVars, inflight, succeeded, server>>

-----------------------------------------------------------------------------
(* The specification of the tax estimate: accounts, the requests that      *)
(* write income and dependents, and calculate-tax.                         *)

\* wages of the request bodies, in cents
WageAmounts == {5, 1027500, 2000000, 4177500, 5000000, 8945000, 10000000}
\* interest of the request bodies, in cents
InterestAmounts == {0, 1, -500000}

\* income objects of PUT /tax-info bodies
TaxInfoIncomes ==
    { Map([key \in {"wages"} |-> JNum(a)]) : a \in WageAmounts }
    \cup { Map([key \in {"interest"} |-> JNum(b)]) : b \in InterestAmounts }
    \cup { Map([key \in {"w2Data"} |-> JObj]) }

TaxInfoBodies ==
    { [key \in {"income"} |-> inc] : inc \in TaxInfoIncomes }
    \cup { <<>>, [key \in {"filingStatus"} |-> Str("widow")] }

\* bodies of PUT /me: no income, a null income, an empty one
MeBodies ==
    { <<>>, [key \in {"income"} |-> NullMap], [key \in {"income"} |-> EmptyMap] }

\* the tokens of the account whose income the requests write
WriterTokens == { t \in Tokens : t.kind # "valid" \/ t.uid = "u1" }

InitTax ==
    /\ text = ""
    /\ patterns = NoPatterns
    /\ fn = "none"
    /\ result = Null
    /\ InitStore

Next ==
    \/ \E u \in UserIds : Register(u)
    \/ \E token \in WriterTokens, body \in TaxInfoBodies : PutTaxInfo(token, body)
    \/ \E token \in WriterTokens, body \in MeBodies : PutMe(token, body)
    \/ \E token \in Tokens, name \in {"", "Kid "}, relationship \in {"child", "pet"} :
          AddDependent(token, name, relationship)
    \/ \E token \in Tokens, dependentId \in 1..MaxDependents :
          RemoveDependent(token, dependentId)
    \/ \E token \in Tokens, dbError \in BOOLEAN : CalculateTax(token, dbError)

Spec == InitTax /\ [][Next]_vars

-----------------------------------------------------------------------------
(* Properties of calculate-tax, over the response a state records *)

\* the last request was a calculate-tax that answered with a calculation
Calculated == response.route = "calculate-tax" /\ response.status = 200
calc == response.calculation
\* the income mapping that request read
IncomeRead == users[request.token.uid].income

\* B(T) of the bracket table, T in cents, the result in 1/10000 of a dollar:
\* 0.10*T up to 10275; 1027.50 + 0.12*(T - 10275) up to 41775;
\* 4807.50 + 0.22*(T - 41775) up to 89450; 15213.50 + 0.24*(T - 89450) above
TableTax(T) ==
    IF T <= 1027500 THEN 10 * T
    ELSE IF T <= 4177500 THEN 10275000 + 12 * (T - 1027500)
    ELSE IF T <= 8945000 THEN 48075000 + 22 * (T - 4177500)
    ELSE 152135000 + 24 * (T - 8945000)

\* cents is amount (in 1/10000 of a dollar) rounded to a nearest cent; at a
\* half cent either neighbour is a nearest one
IsRoundedToCents(cents, amount) ==
    /\ 100 * cents - 50 <= amount
    /\ amount <= 100 * cents + 50

\* C6: for a total income T > 0 and d dependents, the tax owed that
\* calculate-tax reports is max(0, B(T) - 2000*d) rounded to cents; for
\* T = 50000 and d = 2 that is 6617.00 before the deduction, 2617.00 after,
\* and the effective rate is 5.23.
C6_TaxOwedByTable ==
    (Calculated /\ Positive(calc.totalIncome)) =>
        LET T == calc.totalIncome.n
            d == calc.dependentsCount
            due == IF TableTax(T) > 20000000 * d THEN TableTax(T) - 20000000 * d ELSE 0
        IN /\ IsRoundedToCents(calc.taxOwed, due)
           /\ (T = 5000000 /\ d = 2) =>
                 /\ TableTax(T) = 66170000
                 /\ calc.taxOwed = 261700
                 /\ calc.effectiveRate = 523

\* calculate-tax answered for T = 50000 with two dependents.
C6_Witness ==
    /\ Calculated
    /\ calc.totalIncome = JNum(5000000)
    /\ calc.dependentsCount = 2
    /\ calc.taxOwed = 261700

\* C7: an income equal to a bracket bound is taxed by the lower bracket's
\* formula: without dependents, 10275 gives 1027.50, 41775 gives
\* 1027.50 + 0.12 * 31500 = 4807.50 and 89450 gives
\* 4807.50 + 0.22 * 47675 = 15296.00.
C7_BoundInLowerBracket ==
    (Calculated /\ calc.dependentsCount = 0 /\ calc.totalIncome.k = "num") =>
        /\ calc.totalIncome.n = 1027500 => calc.taxOwed = 102750
        /\ calc.totalIncome.n = 4177500 => calc.taxOwed = 480750
        /\ calc.totalIncome.n = 8945000 => calc.taxOwed = 1529600

\* calculate-tax answered for an income of exactly 89450, without dependents.
C7_Witness ==
    /\ Calculated
    /\ calc.dependentsCount = 0
    /\ calc.totalIncome = JNum(8945000)
    /\ calc.taxOwed = 1529600

\* the tax, in cents, that the bracket ending at bound yields at bound
TaxAtBound(bound) == RoundDiv(TableTax(bound), 100)

\* C8: the table is cumulative: the base amount of the bracket that starts
\* at a bound is the tax the preceding bracket yields at that bound, so the
\* tax before the deduction has no jump at a bound: without dependents, one
\* cent of income above a bound moves the reported tax by at most one cent.
C8_NoJumpAtBounds ==
    (Calculated /\ calc.dependentsCount = 0 /\ calc.totalIncome.k = "num") =>
        \A bound \in {Bracket1Max, Bracket2Max, Bracket3Max} :
           calc.totalIncome.n = bound + 1 =>
              /\ calc.taxOwed >= TaxAtBound(bound)
              /\ calc.taxOwed <= TaxAtBound(bound) + 1

\* C9: the tax owed that calculate-tax reports is never negative; it is 0
\* when 2000 times the dependent count exceeds the bracket tax.
C9_TaxOwedNotNegative ==
    Calculated =>
        /\ calc.taxOwed >= 0
        /\ calc.dependentDeduction * 100 > BracketTax(calc.totalIncome) =>
              calc.taxOwed = 0

\* A positive bracket tax, smaller than the deduction for the dependents.
C9_Witness ==
    /\ Calculated
    /\ BracketTax(calc.totalIncome) > 0
    /\ calc.dependentDeduction * 100 > BracketTax(calc.totalIncome)
    /\ calc.taxOwed = 0

\* every category of the income mapping is zero or absent; the mapping may
\* be empty or missing
AllZeroOrAbsent(income) ==
    income.null \/ \A key \in DOMAIN income.m : income.m[key] \in {JNum(0), JNull}

\* C10: when every category of the stored income is zero or absent (the
\* mapping may be empty or missing), calculate-tax reports tax owed 0 and
\* effective rate 0, whatever the dependent count.
C10_ZeroIncomeZeroTax ==
    (Calculated /\ AllZeroOrAbsent(IncomeRead)) =>
        /\ calc.totalIncome = JNum(0)
        /\ calc.taxOwed = 0
        /\ calc.effectiveRate = 0

\* calculate-tax answered for an account with dependents whose income
\* mapping is missing.
C10_Witness ==
    /\ Calculated
    /\ IncomeRead.null
    /\ calc.dependentsCount > 0
    /\ calc.taxOwed = 0
    /\ calc.effectiveRate = 0

-----------------------------------------------------------------------------
(* W-2 upload and extraction.  The handlers read and write the column      *)
(* w2FileName of the User row.                                             *)

\* the fields of extractedData that come from the document text
W2Fields == NameFields \cup MoneyFields

\* the literal after || for each field
Placeholder(field) == IF field \in NameFields THEN "Not found" ELSE "0.00"

\* x || placeholder without the fallback
OrElse_keep(v, placeholder) == v

\* x || placeholder: null and '' are falsy
OrElse(v, placeholder) == IF v.null \/ v.s = "" THEN Str(placeholder) ELSE v

\* the document texts of the requests that follow an extraction (generate-1098
\* and the reads): wages on both sides of 30000, 20000 and 10000, and none
FormTexts ==
    { "Wages: 30,000.01", "Wages: 30,000.00", "Wages: 20,000.5", "Wages: 10,000",
      "Total due" }

\* what the helper called for a field returns
Extracted(field, txt) ==
    IF field \in NameFields
    THEN extractField(txt, FieldPatterns(field))
    ELSE extractMoneyField(txt, FieldPatterns(field))

\* The helper results for every document text of the model, computed once.
HelperResults ==
    [txt \in Texts \cup FormTexts |-> [field \in W2Fields |-> Extracted(field, txt)]]

\* new Date().toISOString()
Now == Str("now")

\* const extractedData = { ... }
extractedData(txt, fileName) ==
    [field \in W2Fields \cup {"extractionDate", "fileName"} |->
        IF field = "fileName" THEN fileName
        ELSE IF field = "extractionDate" THEN Now
        ELSE OrElse(HelperResults[txt][field], Placeholder(field))]

\* an object among the values of the income mapping, with its content
W2Obj(data) == [k |-> "obj", n |-> 0, o |-> data]

\* req.file.filename
UploadedFileName == Str("w2-1.pdf")

\* router.post('/upload-w2', auth, upload.single('w2File'), ...)
UploadW2(token, hasFile) ==
    LET id == ReqUserId(token)
        status == IF ~auth(token) THEN 401
                  ELSE IF ~hasFile THEN 400
                  ELSE IF ~Found(id) THEN 404
                  ELSE 200
    IN /\ request' = Request("upload-w2", token)
       /\ response' = Respond("upload-w2", status, NoCalculation)
       /\ users' = IF status = 200
                   THEN [users EXCEPT ![id] =
                            Updated(users[id], [w2FileName |-> UploadedFileName])]
                   ELSE users
       /\ succeeded' = IF status = 200 THEN succeeded \cup {Done("upload-w2", id)}
                       ELSE succeeded
       /\ UNCHANGED <<dependents, nextDepId, extractVars, inflight, server>>

\* what extract-w2 finds at w2Path: no file, a file pdf-parse throws on, or
\* a PDF with its text
W2Documents ==
    { [file |-> "missing", text |-> ""], [file |-> "invalid", text |-> ""] }
    \cup { [file |-> "pdf", text |-> txt] : txt \in Texts }

\* the income column without the spread: { w2Data: extractedData }
W2Income_replace(user, txt) ==
    Map([key \in {"w2Data"} |-> W2Obj(extractedData(txt, user.w2FileName))])

\* the income column extract-w2 writes: { ...user.income, w2Data: extractedData }
W2Income(user, txt) ==
    Spread(user.income,
           Map([key \in {"w2Data"} |-> W2Obj(extractedData(txt, user.w2FileName))]))

\* router.post('/extract-w2', auth, ...): doc is what is found at w2Path
ExtractW2(token, doc) ==
    LET id == ReqUserId(token)
        status == IF ~auth(token) THEN 401
                  ELSE IF ~Found(id) THEN 400
                  ELSE IF users[id].w2FileName.null \/ users[id].w2FileName.s = "" THEN 400
                  ELSE IF doc.file = "missing" THEN 404
                  ELSE IF doc.file = "invalid" THEN 500
                  ELSE 200
    IN /\ request' = Request("extract-w2", token)
       /\ response' =
            IF status = 200
            THEN RespondData("extract-w2", 200,
                             W2Obj(extractedData(doc.text, users[id].w2FileName)))
            ELSE Respond("extract-w2", status, NoCalculation)
       /\ text' = IF status = 200 THEN doc.text ELSE text
       /\ users' = IF status = 200
                   THEN [users EXCEPT ![id] =
                            Updated(users[id], [income |-> W2Income(users[id], doc.text)])]
                   ELSE users
       /\ succeeded' = IF status = 200 THEN succeeded \cup {Done("extract-w2", id)}
                       ELSE succeeded
       /\ UNCHANGED <<patterns, fn, result, dependents, nextDepId, inflight, server>>

\* the requests of one account: without a token, with a token naming the
\* user under "id", with one naming the user under "userId"
W2Tokens == {NoToken} \cup { t \in ValidTokens : t.uid = "u1" }

\* the body of the PUT /tax-info requests of this specification
W2TaxInfoBody == [key \in {"income"} |-> Map([k2 \in {"wages"} |-> JNum(5000000)])]

NextW2 ==
    \/ Register("u1")
    \/ \E token \in W2Tokens, hasFile \in BOOLEAN : UploadW2(token, hasFile)
    \/ \E token \in W2Tokens, doc \in W2Documents : ExtractW2(token, doc)
    \/ \E token \in W2Tokens : PutTaxInfo(token, W2TaxInfoBody)
    \/ \E token \in W2Tokens : CalculateTax(token, FALSE)

SpecW2 == InitTax /\ [][NextW2]_vars

-----------------------------------------------------------------------------
(* Properties of the income that calculate-tax reads *)

\* the sum of the numeric values of an income mapping, in cents; a value
\* that is no number counts as zero
RECURSIVE NumericSum(_, _)
NumericSum(m, keys) ==
    IF keys = {} THEN 0
    ELSE LET key == CHOOSE x \in keys : TRUE
         IN (IF m[key].k = "num" THEN m[key].n ELSE 0) + NumericSum(m, keys \ {key})

\* C11: the total income calculate-tax uses is a number, the arithmetic sum
\* of the numeric values of the stored income mapping (missing entries count
\* as zero), for every income mapping the routes can store, also after a W-2
\* extraction merged its record into the income column.
C11_TotalIncomeIsNumericSum ==
    Calculated =>
        /\ calc.totalIncome.k = "num"
        /\ calc.totalIncome.n =
              IF IncomeRead.null THEN 0
              ELSE NumericSum(IncomeRead.m, DOMAIN IncomeRead.m)

\* C12: in every reachable state every entry of every user's stored income
\* mapping is a non-negative numeric amount: no sequence of requests stores
\* a negative, non-numeric or object-valued entry.
C12_IncomeEntriesNonNegative ==
    \A u \in DOMAIN users :
        ~users[u].income.null =>
            \A key \in DOMAIN users[u].income.m :
                /\ users[u].income.m[key].k = "num"
                /\ users[u].income.m[key].n >= 0

-----------------------------------------------------------------------------
(* Properties of calculate-tax and the dependents, over steps *)

\* the Dependent rows of user u among deps
DependentsOf(u, deps) == { d \in deps : d.userId = u }

\* the step answered the request of the given route with 200
Answered(route) == response'.route = route /\ response'.status = 200

\* C13: the dependent count calculate-tax uses for user U is the number of
\* dependents now stored for U: a successful add by U raises it by one, a
\* successful remove by U lowers it by one, nothing else changes it (other
\* users' dependents do not count), and the reported dependentDeduction is
\* 2000 times the count.
C13_DependentCountIsStoredCount ==
    [][ LET u == request'.token.uid
            before == Cardinality(DependentsOf(u, dependents))
            after == Cardinality(DependentsOf(u, dependents'))
            othersKept == \A v \in UserIds \ {u} :
                              DependentsOf(v, dependents') = DependentsOf(v, dependents)
        IN /\ Answered("add-dependent") => (after = before + 1 /\ othersKept)
           /\ Answered("remove-dependent") => (after = before - 1 /\ othersKept)
           /\ ~(Answered("add-dependent") \/ Answered("remove-dependent")) =>
                 dependents' = dependents
           /\ Answered("calculate-tax") =>
                 /\ response'.calculation.dependentsCount = after
                 /\ response'.calculation.dependentDeduction = 200000 * after
      ]_vars

\* calculate-tax answered a user with one dependent while another user has
\* one too.
C13_Witness ==
    /\ Calculated
    /\ Cardinality(DependentsOf(request.token.uid, dependents)) = 1
    /\ Cardinality(dependents) = 2
    /\ calc.dependentsCount = 1
    /\ calc.dependentDeduction = 200000

\* (tax / income) * 100 rounded to two decimals, in 1/100 percent, for a tax
\* and an income in cents
RatePercent(tax, income) ==
    100 * ((100 * tax) \div income) + RoundDiv(100 * ((100 * tax) % income), income)

\* C14: the reported effective rate is (reported tax owed / total income) *
\* 100 rounded to two decimals, the tax owed being the value after the
\* deduction, the clamp and the rounding to cents, for every total income
\* > 0; it is 0 when the total income is 0.
C14_RateOfReportedTax ==
    Calculated =>
        /\ Positive(calc.totalIncome) =>
              calc.effectiveRate = RatePercent(calc.taxOwed, calc.totalIncome.n)
        /\ calc.totalIncome = JNum(0) => calc.effectiveRate = 0

C16_CalculateTaxWritesNothing ==
    [][ request'.route = "calculate-tax" =>
          /\ users' = users
          /\ dependents' = dependents
          /\ nextDepId' = nextDepId
      ]_vars

\* calculate-tax answered a user whose row was written before and who has a
\* dependent.
C16_Witness ==
    /\ Calculated
    /\ users[request.token.uid].formCompletionStatus = Str("in_progress")
    /\ DependentsOf(request.token.uid, dependents) # {}

-----------------------------------------------------------------------------
(* Properties of the record extract-w2 stores.  One account extracts, so   *)
(* a stored record is the one made from the document text of the state.    *)

\* user u has a W-2 record in the income column
HasW2(u) ==
    /\ ~users[u].income.null
    /\ "w2Data" \in DOMAIN users[u].income.m
    /\ users[u].income.m["w2Data"].k = "obj"

\* the stored record
W2Data(u) == users[u].income.m["w2Data"].o

\* C17: for every document text the record extract-w2 assembles holds, for
\* each of the eight fields, the extracted string or the field's placeholder
\* ('Not found' for the names, '0.00' for the amounts); no field of the
\* stored record is null or undefined.
C17_ExtractedOrPlaceholder ==
    \A u \in DOMAIN users :
        HasW2(u) =>
            /\ DOMAIN W2Data(u) = W2Fields \cup {"extractionDate", "fileName"}
            /\ ~W2Data(u).fileName.null
            /\ \A field \in W2Fields :
                 LET v == W2Data(u)[field]
                     h == HelperResults[text][field]
                 IN /\ ~v.null
                    /\ v = h \/ v = Str(Placeholder(field))
                    /\ h.null => v = Str(Placeholder(field))
                    /\ (~h.null /\ h.s # "") => v = h

\* A stored record with a field taken from the text and a field whose helper
\* returned null and that holds the placeholder.
C17_Witness ==
    \E u \in DOMAIN users :
        /\ HasW2(u)
        /\ \E f1, f2 \in W2Fields :
             /\ ~HelperResults[text][f1].null
             /\ W2Data(u)[f1] = HelperResults[text][f1]
             /\ W2Data(u)[f1] # Str(Placeholder(f1))
             /\ HelperResults[text][f2].null
             /\ W2Data(u)[f2] = Str(Placeholder(f2))

\* s is a decimal: digits, or digits "." digits
IsDecimal(s) ==
    LET dots == { i \in 1..Len(s) : CharAt(s, i) = "." }
    IN /\ Len(s) > 0
       /\ \A i \in 1..Len(s) : CharAt(s, i) \in Digit \cup {"."}
       /\ Cardinality(dots) <= 1
       /\ \A i \in dots : i > 1 /\ i < Len(s)

\* C18: a captured amount that is no valid decimal (only commas, or digits
\* with a trailing "." and no fraction) is treated as not found: the stored
\* amount is the placeholder, never a malformed string.
C18_MalformedAmountIsPlaceholder ==
    \A u \in DOMAIN users :
        HasW2(u) =>
            \A field \in MoneyFields :
                \/ W2Data(u)[field] = Str(Placeholder(field))
                \/ IsDecimal(W2Data(u)[field].s)

\* some rule of the field's list matches the text
SomeRuleMatches(field, txt) ==
    \E i \in 1..Len(FieldPatterns(field)) : Match(txt, FieldPatterns(field)[i]).matched

\* C19: in the record extract-w2 produces, a field holds the not-found
\* placeholder if and only if no rule matched for that field.
C19_PlaceholderIffNoMatch ==
    \A u \in DOMAIN users :
        HasW2(u) =>
            \A field \in W2Fields :
                (W2Data(u)[field] = Str(Placeholder(field)))
                    <=> ~SomeRuleMatches(field, text)

-----------------------------------------------------------------------------
(* Handlers running concurrently.  A handler that writes the income column *)
(* awaits User.findByPk, computes the new column from the row it got, and  *)
(* awaits user.update; other handlers run between the two awaits.          *)

\* The most requests in flight together.
MaxInflight == 2

\* validator isNumeric: /^[+-]?([0-9]*[.])?[0-9]+$/
IsNumeric(s) ==
    LET body == IF Len(s) > 0 /\ CharAt(s, 1) \in {"+", "-"}
                THEN SubSeq(s, 2, Len(s)) ELSE s
        dots == { i \in 1..Len(body) : CharAt(body, i) = "." }
    IN /\ Len(body) > 0
       /\ \A i \in 1..Len(body) : CharAt(body, i) \in Digit \cup {"."}
       /\ Cardinality(dots) <= 1
       /\ CharAt(body, Len(body)) \in Digit

\* { ...currentW2Data, ...req.body, lastModified: new Date() }
updatedW2Data(currentW2Data, body) ==
    [field \in (DOMAIN currentW2Data) \cup (DOMAIN body) \cup {"lastModified"} |->
        IF field = "lastModified" THEN Str("now")
        ELSE IF field \in DOMAIN body THEN body[field]
        ELSE currentW2Data[field]]

\* user.income?.w2Data is truthy
HasW2Data(user) ==
    /\ ~user.income.null
    /\ "w2Data" \in DOMAIN user.income.m
    /\ user.income.m["w2Data"].k = "obj"

\* what a handler passes to user.update, from the row it read
Changes(req) ==
    CASE req.route = "tax-info" -> TaxInfoUpdate(req.user, req.body)
      [] req.route = "extract-w2" -> [income |-> W2Income(req.user, req.text)]
      [] req.route = "w2-data" ->
            [income |->
                Spread(req.user.income,
                       Map([key \in {"w2Data"} |->
                              W2Obj(updatedW2Data(req.user.income.m["w2Data"].o,
                                                  req.body))]))]

\* a request in flight, or settled
Handler(route, token, body, txt, user, pc) ==
    [route |-> route, token |-> token, body |-> body, text |-> txt,
     user |-> user, pc |-> pc]

\* the steps of a handler up to its answer or to the return of findByPk
Begin(r, route, token, body, txt, userId, refused) ==
    LET status == IF ~auth(token) THEN 401
                  ELSE IF refused # 0 THEN refused
                  ELSE 200
        user == IF Found(userId) THEN users[userId] ELSE DefaultUser
    IN /\ r \notin DOMAIN inflight
       /\ request' = Request(route, token)
       /\ response' = IF status = 200 THEN response
                      ELSE Respond(route, status, NoCalculation)
       /\ inflight' = [x \in (DOMAIN inflight) \cup {r} |->
                          IF x = r
                          THEN Handler(route, token, body, txt, user,
                                       IF status = 200 THEN "read" ELSE "refused")
                          ELSE inflight[x]]
       /\ UNCHANGED <<users, dependents, nextDepId, extractVars, succeeded, server>>

\* PUT /tax-info up to the return of findByPk
BeginTaxInfo(r, token, body) ==
    LET userId == ReqUserUserId(token)
        valid == /\ ValidEnum(body, "filingStatus", FilingStatuses)
                 /\ ValidEnum(body, "taxClassification", TaxClassifications)
    IN Begin(r, "tax-info", token, body, "", userId,
             IF ~valid THEN 400 ELSE IF ~Found(userId) THEN 404 ELSE 0)

\* POST /extract-w2 up to the return of findByPk; the document is read
\* before the update
BeginExtractW2(r, token, doc) ==
    LET id == ReqUserId(token)
    IN Begin(r, "extract-w2", token, <<>>, doc.text, id,
             IF ~Found(id) THEN 400
             ELSE IF users[id].w2FileName.null \/ users[id].w2FileName.s = "" THEN 400
             ELSE IF doc.file = "missing" THEN 404
             ELSE IF doc.file = "invalid" THEN 500
             ELSE 0)

\* PUT /w2-data up to the return of findByPk
BeginPutW2Data(r, token, body) ==
    LET userId == ReqUserUserId(token)
        valid == \A key \in {"box1_wages", "box2_federalTax"} :
                    Has(body, key) => (~body[key].null /\ IsNumeric(body[key].s))
    IN Begin(r, "w2-data", token, body, "", userId,
             IF ~valid THEN 400
             ELSE IF ~Found(userId) THEN 404
             ELSE IF ~HasW2Data(users[userId]) THEN 404
             ELSE 0)

\* await user.update(...) and the answer: the columns passed are written to
\* the row as it is now
FinishUpdate(r) ==
    /\ r \in DOMAIN inflight
    /\ inflight[r].pc = "read"
    /\ LET req == inflight[r]
           id == req.token.uid
       IN /\ users' = [users EXCEPT ![id] = Updated(users[id], Changes(req))]
          /\ request' = Request(req.route, req.token)
          /\ response' = Respond(req.route, 200, NoCalculation)
          /\ text' = IF req.route = "extract-w2" THEN req.text ELSE text
          /\ inflight' = [inflight EXCEPT ![r].pc = "done"]
          /\ succeeded' = IF req.route = "extract-w2"
                          THEN succeeded \cup {Done("extract-w2", id)}
                          ELSE succeeded
    /\ UNCHANGED <<patterns, fn, result, dependents, nextDepId, server>>

\* the text of the W-2 the account extracted before the requests arrive
RaceText == "Wages: 1,234"

\* the row of that account: the upload and the extraction are done
RaceUser ==
    LET uploaded == Updated(DefaultUser, [w2FileName |-> UploadedFileName])
    IN Updated(uploaded, [income |-> W2Income(uploaded, RaceText)])

RaceTokens == { t \in ValidTokens : t.uid = "u1" }
RaceTaxInfoBodies ==
    { [key \in {"income"} |-> Map([k2 \in {"wages"} |-> JNum(5000000)])],
      [key \in {"income"} |-> Map([k2 \in {"interest"} |-> JNum(1)])],
      [key \in {"filingStatus"} |-> Str("widow")] }
RaceDocuments ==
    { [file |-> "pdf", text |-> "Wages 12."],
      [file |-> "pdf", text |-> "Employer's name: Acme, Inc."],
      [file |-> "missing", text |-> ""] }
RaceW2Bodies ==
    { [key \in {"box1_wages"} |-> Str("70000.00")],
      [key \in {"employerName"} |-> Str("Acme")],
      [key \in {"box1_wages"} |-> Str("1,234")] }

InitRace ==
    /\ text = RaceText
    /\ patterns = NoPatterns
    /\ fn = "none"
    /\ result = Null
    /\ users = [u \in {"u1"} |-> RaceUser]
    /\ dependents = {}
    /\ nextDepId = 1
    /\ request = [route |-> "none", token |-> NoToken]
    /\ response = [route |-> "none", status |-> 0, calculation |-> NoCalculation]
    /\ inflight = <<>>
    /\ succeeded = {Done("upload-w2", "u1"), Done("extract-w2", "u1")}
    /\ server = Serving

NextRace ==
    \/ \E r \in 1..MaxInflight, token \in RaceTokens, body \in RaceTaxInfoBodies :
          BeginTaxInfo(r, token, body)
    \/ \E r \in 1..MaxInflight, token \in RaceTokens, doc \in RaceDocuments :
          BeginExtractW2(r, token, doc)
    \/ \E r \in 1..MaxInflight, token \in RaceTokens, body \in RaceW2Bodies :
          BeginPutW2Data(r, token, body)
    \/ \E r \in 1..MaxInflight : FinishUpdate(r)

SpecRace == InitRace /\ [][NextRace]_vars

\* the row after the request ran alone on it
RanAlone(req, row) == Updated(row, Changes([req EXCEPT !.user = row]))

\* the row after the requests ran one after the other in the given order
RECURSIVE RanInOrder(_, _)
RanInOrder(order, row) ==
    IF Len(order) = 0 THEN row
    ELSE RanInOrder(Tail(order), RanAlone(inflight[Head(order)], row))

\* the requests that wrote, and the orders they can be put in
Writers == { r \in DOMAIN inflight : inflight[r].pc = "done" }
SerialOrders ==
    { o \in [1..Cardinality(Writers) -> Writers] :
        \A i, j \in 1..Cardinality(Writers) : i # j => o[i] # o[j] }

\* C20: handlers may run concurrently without coordination: when two
\* requests of the same user that write the income column have both
\* answered, the stored row is the one some serial order of the two
\* produces, whatever the interleaving of their reads and writes; no
\* request's update is lost.
C20_ConcurrentWritesSerializable ==
    (Cardinality(Writers) = MaxInflight) =>
        \E order \in SerialOrders : users["u1"] = RanInOrder(order, RaceUser)


-----------------------------------------------------------------------------
(* The tax owed as a function of the income *)

\* what calculate-tax reports for an income mapping with wages only
TaxOwedFor(wages, dependentsCount) ==
    Calculation(Map([key \in {"wages"} |-> JNum(wages)]), dependentsCount).taxOwed

\* C23: for a fixed dependent count the tax owed that calculate-tax reports
\* does not decrease when the total income grows: for every income T1 below
\* the income T2 of an answer, with the same dependent count, the tax owed
\* reported for T1 is at most the tax owed of the answer, also when T1 and
\* T2 lie on the two sides of a bracket bound.
C23_TaxOwedMonotone ==
    (Calculated /\ calc.totalIncome.k = "num") =>
        \A T1 \in WageAmounts :
            T1 <= calc.totalIncome.n =>
                TaxOwedFor(T1, calc.dependentsCount) <= calc.taxOwed


-----------------------------------------------------------------------------
(* PUT /tax-info with bodies that name scalars, address, income and        *)
(* deductions, on an account that PUT /me also writes.                     *)

\* bodies of PUT /tax-info: one field each, or two
FrameTaxInfoBodies ==
    { <<>>,
      [key \in {"filingStatus"} |-> Str("head_of_household")],
      [key \in {"filingStatus"} |-> Str("widow")],
      [key \in {"businessName"} |-> Str(" Acme ")],
      [key \in {"address"} |-> Map([k2 \in {"postcode"} |-> JNum(6000)])],
      [key \in {"address"} |-> Map([k2 \in {"unit"} |-> JNum(2)])],
      [key \in {"income"} |-> Map([k2 \in {"wages"} |-> JNum(5000000)])],
      [key \in {"income"} |-> Map([k2 \in {"interest"} |-> JNum(1)])],
      [key \in {"deductions"} |-> Map([k2 \in {"standardDeduction"} |-> JNull])],
      [key \in {"ssn", "income"} |->
          IF key = "ssn" THEN Str("123-45-6789")
          ELSE Map([k2 \in {"dividends"} |-> JNum(700)])] }

NextTaxInfo ==
    \/ \E u \in UserIds : Register(u)
    \/ \E token \in WriterTokens, body \in FrameTaxInfoBodies : PutTaxInfo(token, body)
    \/ \E token \in WriterTokens, body \in MeBodies : PutMe(token, body)

SpecTaxInfo == InitTax /\ [][NextTaxInfo]_vars

\* the keys of a JSONB value
Keys(obj) == IF obj.null THEN {} ELSE DOMAIN obj.m

\* new is old with the keys of the request's object put over it
MergedKeyByKey(old, given, new) ==
    /\ ~new.null
    /\ DOMAIN new.m = Keys(old) \cup Keys(given)
    /\ \A key \in Keys(given) : new.m[key] = given.m[key]
    /\ \A key \in Keys(old) \ Keys(given) : new.m[key] = old.m[key]

\* what a PUT /tax-info with this body, answered with 200, leaves of the row
TaxInfoFrame(body, old, new) ==
    /\ \A col \in {"firstName", "lastName", "lastLogin", "w2FileName"} :
          new[col] = old[col]
    /\ \A col \in {"filingStatus", "taxClassification"} :
          IF Has(body, col) THEN new[col] = body[col] ELSE new[col] = old[col]
    /\ \A col \in {"businessName", "ssn", "ein"} :
          IF Has(body, col) THEN new[col] = Str(Trim(body[col].s))
          ELSE new[col] = old[col]
    /\ \A col \in {"address", "income", "deductions"} :
          IF Has(body, col) THEN MergedKeyByKey(old[col], body[col], new[col])
          ELSE new[col] = old[col]
    /\ new.formCompletionStatus = Str("in_progress")

\* C28: PUT /tax-info changes only what the request names.  In every step
\* that is a PUT /tax-info request: when the answer is 200, the row of the
\* token's user keeps every scalar the body does not name, its address,
\* income and deductions are the stored ones with the keys of the body put
\* over them, and formCompletionStatus is 'in_progress'; when the answer is
\* 400, 404 or 401 no row changes; no other row and no dependent changes.
C28_TaxInfoChangesOnlyNamed ==
    [][\A token \in WriterTokens, body \in FrameTaxInfoBodies :
          PutTaxInfo(token, body) =>
              /\ response'.status \in {200, 400, 401, 404}
              /\ dependents' = dependents
              /\ IF response'.status = 200
                 THEN /\ DOMAIN users' = DOMAIN users
                      /\ \A u \in DOMAIN users \ {token.uid} : users'[u] = users[u]
                      /\ TaxInfoFrame(body, users[token.uid], users'[token.uid])
                 ELSE users' = users]_vars

\* a PUT /tax-info was answered with 200 and left a row in which a scalar,
\* an income entry and an address entry written by earlier requests stand
\* next to the deduction entry this request named
C28_Witness ==
    /\ response.route = "tax-info" /\ response.status = 200
    /\ "u2" \in DOMAIN users
    /\ LET row == users["u1"]
       IN /\ row.businessName = Str("Acme")
          /\ {"wages", "interest"} \subseteq Keys(row.income)
          /\ row.income.m["wages"] = JNum(5000000)
          /\ row.income.m["interest"] = JNum(1)
          /\ Keys(row.address) = {"postcode", "unit"}
          /\ row.deductions.m["standardDeduction"] = JNull
          /\ row.deductions.m["itemizedDeductions"] = JObj


-----------------------------------------------------------------------------
(* Dependents, user by user *)

\* the rows a delete request of this token's user is about
OwnRow(token, dependentId) ==
    { d \in dependents : d.id = dependentId /\ d.userId = token.uid }

\* C26: dependents are isolated per user.  A delete request of user U that
\* is answered with success removes exactly the row with the requested id
\* that belongs to U; when no row has that id, or the row belongs to another
\* user, the answer is 404 and no row is removed; and no request changes
\* the rows listed for a user other than the one its token names.
C26_DependentsIsolated ==
    [][/\ \A token \in ValidTokens, dependentId \in 1..MaxDependents :
             RemoveDependent(token, dependentId) =>
                 /\ response'.status = 200 =>
                       /\ OwnRow(token, dependentId) # {}
                       /\ dependents' = dependents \ OwnRow(token, dependentId)
                 /\ OwnRow(token, dependentId) = {} =>
                       /\ response'.status = 404
                       /\ dependents' = dependents
       /\ \A u \in UserIds :
             request'.token.uid # u =>
                 DependentsOf(u, dependents') = DependentsOf(u, dependents)]_vars


-----------------------------------------------------------------------------
(* The reads of the stored records and the 1098 form *)

\* `if (v)` for a value of a JSONB mapping: null and 0 are falsy
JTruthy(v) == ~(v.k = "null" \/ (v.k = "num" /\ v.n = 0))

\* obj?.key || null: the value, when there is a truthy one
HasTruthy(obj, key) ==
    /\ ~obj.null
    /\ key \in DOMAIN obj.m
    /\ JTruthy(obj.m[key])

\* the value of a string of digits
RECURSIVE DigitsValue(_)
DigitsValue(s) ==
    IF Len(s) = 0 THEN 0
    ELSE 10 * DigitsValue(SubSeq(s, 1, Len(s) - 1))
         + (CHOOSE d \in 0..9 : CharAt("0123456789", d + 1) = CharAt(s, Len(s)))

\* the longest prefix of s made of digits
RECURSIVE DigitPrefix(_)
DigitPrefix(s) ==
    IF Len(s) > 0 /\ CharAt(s, 1) \in Digit
    THEN CharAt(s, 1) \o DigitPrefix(SubSeq(s, 2, Len(s)))
    ELSE ""

\* parseFloat: white space, a sign, digits, "." and digits; what follows is
\* ignored.  The value is int plus a fraction that is positive when more is
\* TRUE; nan when no digit is read.
parseFloat(s) ==
    LET t == TrimLeft(s)
        signed == Len(t) > 0 /\ CharAt(t, 1) \in {"+", "-"}
        u == IF signed THEN SubSeq(t, 2, Len(t)) ELSE t
        int == DigitPrefix(u)
        rest == SubSeq(u, Len(int) + 1, Len(u))
        frac == IF Len(rest) > 0 /\ CharAt(rest, 1) = "."
                THEN DigitPrefix(SubSeq(rest, 2, Len(rest))) ELSE ""
    IN [ nan |-> int = "" /\ frac = "",
         negative |-> signed /\ CharAt(t, 1) = "-",
         int |-> DigitsValue(int),
         more |-> \E i \in 1..Len(frac) : CharAt(frac, i) # "0" ]

\* wages > bound, for a whole number of dollars
Above(wages, bound) ==
    /\ ~wages.nan
    /\ ~wages.negative
    /\ wages.int > bound \/ (wages.int = bound /\ wages.more)

\* w2Data.box1_wages || '0'
Box1WagesOf(w2Data) ==
    IF "o" \in DOMAIN w2Data /\ "box1_wages" \in DOMAIN w2Data.o
    THEN OrElse(w2Data.o.box1_wages, "0").s
    ELSE "0"

\* function calculateStudentLoanInterest(w2Data)
calculateStudentLoanInterest(w2Data) ==
    LET wages == parseFloat(Box1WagesOf(w2Data))
    IN IF Above(wages, 30000) THEN "2500.00"
       ELSE IF Above(wages, 20000) THEN "1500.00"
       ELSE IF Above(wages, 10000) THEN "800.00"
       ELSE "0.00"

\* an object among the values of the deductions mapping, with its content
Form1098Obj(data) == [k |-> "obj", n |-> 0, o |-> data]

\* const form1098Data = { ... } (the literals left out)
form1098Data(user) ==
    LET w2Data == IF HasTruthy(user.income, "w2Data")
                  THEN user.income.m["w2Data"] ELSE JObj
        name == Trim(OrElse(user.firstName, "").s \o " " \o OrElse(user.lastName, "").s)
    IN [ recipientName |-> OrElse(Str(name), "N/A"),
         recipientTIN |-> OrElse(user.ssn, "N/A"),
         recipientAddress |-> IF user.address.null THEN EmptyMap ELSE user.address,
         box1_studentLoanInterest |-> Str(calculateStudentLoanInterest(w2Data)),
         generatedDate |-> Now ]

\* router.get('/me', auth, ...)
GetMe(token) ==
    LET id == ReqUserId(token)
        status == IF ~auth(token) THEN 401
                  ELSE IF ~Found(id) THEN 404
                  ELSE 200
    IN /\ request' = Request("get-me", token)
       /\ response' = Respond("get-me", status, NoCalculation)
       /\ UNCHANGED <<users, dependents, nextDepId, extractVars, inflight, succeeded,
                      server>>

\* router.get('/w2-data', auth, ...)
GetW2Data(token) ==
    LET id == ReqUserId(token)
        status == IF ~auth(token) THEN 401
                  ELSE IF ~Found(id) THEN 404
                  ELSE IF ~HasTruthy(users[id].income, "w2Data") THEN 404
                  ELSE 200
    IN /\ request' = Request("w2-data", token)
       /\ response' = IF status = 200
                      THEN RespondData("w2-data", 200, users[id].income.m["w2Data"])
                      ELSE Respond("w2-data", status, NoCalculation)
       /\ UNCHANGED <<users, dependents, nextDepId, extractVars, inflight, succeeded,
                      server>>

\* router.post('/generate-1098', auth, ...)
Generate1098(token) ==
    LET id == ReqUserId(token)
        status == IF ~auth(token) THEN 401
                  ELSE IF ~Found(id) THEN 404
                  ELSE 200
    IN /\ request' = Request("generate-1098", token)
       /\ response' = IF status = 200
                      THEN RespondData("generate-1098", 200,
                                       Form1098Obj(form1098Data(users[id])))
                      ELSE Respond("generate-1098", status, NoCalculation)
       /\ users' =
            IF status = 200
            THEN [users EXCEPT ![id] =
                    Updated(users[id],
                            [deductions |->
                               Spread(users[id].deductions,
                                      Map([key \in {"form1098Data"} |->
                                             Form1098Obj(form1098Data(users[id]))]))])]
            ELSE users
       /\ succeeded' = IF status = 200 THEN succeeded \cup {Done("generate-1098", id)}
                       ELSE succeeded
       /\ UNCHANGED <<dependents, nextDepId, extractVars, inflight, server>>

\* router.get('/1098-data', auth, ...)
Get1098Data(token) ==
    LET id == ReqUserId(token)
        status == IF ~auth(token) THEN 401
                  ELSE IF ~Found(id) THEN 404
                  ELSE IF ~HasTruthy(users[id].deductions, "form1098Data") THEN 404
                  ELSE 200
    IN /\ request' = Request("1098-data", token)
       /\ response' = IF status = 200
                      THEN RespondData("1098-data", 200,
                                       users[id].deductions.m["form1098Data"])
                      ELSE Respond("1098-data", status, NoCalculation)
       /\ UNCHANGED <<users, dependents, nextDepId, extractVars, inflight, succeeded,
                      server>>

\* router.get('/download-1098', auth, ...): the PDF is streamed, not stored
Download1098(token) ==
    LET id == ReqUserId(token)
        status == IF ~auth(token) THEN 401
                  ELSE IF ~Found(id) THEN 404
                  ELSE IF ~HasTruthy(users[id].deductions, "form1098Data") THEN 404
                  ELSE 200
    IN /\ request' = Request("download-1098", token)
       /\ response' = Respond("download-1098", status, NoCalculation)
       /\ UNCHANGED <<users, dependents, nextDepId, extractVars, inflight, succeeded,
                      server>>

\* router.get('/dashboard', auth, ...)
GetDashboard(token) ==
    LET userId == ReqUserUserId(token)
        status == IF ~auth(token) THEN 401
                  ELSE IF ~Found(userId) THEN 404
                  ELSE 200
    IN /\ request' = Request("dashboard", token)
       /\ response' = Respond("dashboard", status, NoCalculation)
       /\ UNCHANGED <<users, dependents, nextDepId, extractVars, inflight, succeeded,
                      server>>

\* the instants of new Date() in the mocked extraction
Instants == {"t1", "t2"}

\* a date among the values of the income mapping (stored as its ISO string)
JDate(now) == [k |-> "str", n |-> 0, s |-> now]

\* String(x) of a scalar column in a concatenation
Concat(v) == IF v.null THEN "null" ELSE v.s

\* const extractedData = { ... } of the mocked extraction: the name, box 1,
\* the date and the method (the other literals left out)
mockedData(user, now) ==
    [ employeeName |-> Str(Concat(user.firstName) \o " " \o Concat(user.lastName)),
      box1_wages |-> Str("65000"),
      extractionDate |-> Str(now),
      extractionMethod |-> Str("mocked") ]

\* { ...user.income, w2Data: extractedData, lastW2Extraction: new Date() }
MockedIncome(user, now) ==
    Spread(user.income,
           Map([key \in {"w2Data", "lastW2Extraction"} |->
                  IF key = "w2Data" THEN W2Obj(mockedData(user, now)) ELSE JDate(now)]))

\* router.post('/extract-w2', auth, ...) with the mocked extraction
ExtractW2Mocked(token, fileExists, now) ==
    LET userId == ReqUserUserId(token)
        status == IF ~auth(token) THEN 401
                  ELSE IF ~Found(userId) THEN 404
                  ELSE IF users[userId].w2FileName.null \/ users[userId].w2FileName.s = ""
                  THEN 404
                  ELSE IF ~fileExists THEN 404
                  ELSE 200
    IN /\ request' = Request("extract-w2", token)
       /\ response' =
            IF status = 200
            THEN RespondData("extract-w2", 200, W2Obj(mockedData(users[userId], now)))
            ELSE Respond("extract-w2", status, NoCalculation)
       /\ users' = IF status = 200
                   THEN [users EXCEPT ![userId] =
                            Updated(users[userId],
                                    [income |-> MockedIncome(users[userId], now)])]
                   ELSE users
       /\ succeeded' = IF status = 200 THEN succeeded \cup {Done("extract-w2", userId)}
                       ELSE succeeded
       /\ UNCHANGED <<dependents, nextDepId, extractVars, inflight, server>>

\* what extract-w2 finds at w2Path in this specification
FormDocuments ==
    { [file |-> "missing", text |-> ""], [file |-> "invalid", text |-> ""] }
    \cup { [file |-> "pdf", text |-> txt] : txt \in FormTexts }

\* bodies of PUT /me: a name, an income, an income or deductions that name
\* the stored records
FormMeBodies ==
    { [key \in {"firstName"} |-> Str("Ann")],
      [key \in {"income"} |-> Map([k2 \in {"wages"} |-> JNum(5000000)])],
      [key \in {"income"} |-> Map([k2 \in {"w2Data"} |-> JObj])],
      [key \in {"deductions"} |-> Map([k2 \in {"form1098Data"} |-> JObj])] }

NextForms ==
    \/ Register("u1")
    \/ \E token \in WriterTokens, hasFile \in BOOLEAN : UploadW2(token, hasFile)
    \/ \E token \in WriterTokens, doc \in FormDocuments : ExtractW2(token, doc)
    \/ \E token \in WriterTokens, fileExists \in BOOLEAN, now \in Instants :
          ExtractW2Mocked(token, fileExists, now)
    \/ \E token \in WriterTokens, body \in FormMeBodies : PutMe(token, body)
    \/ \E token \in WriterTokens : GetMe(token)
    \/ \E token \in WriterTokens : GetDashboard(token)
    \/ \E token \in WriterTokens : GetW2Data(token)
    \/ \E token \in WriterTokens : Generate1098(token)
    \/ \E token \in WriterTokens : Get1098Data(token)
    \/ \E token \in WriterTokens : Download1098(token)

SpecForms == InitTax /\ [][NextForms]_vars


-----------------------------------------------------------------------------
(* The order of upload, extraction and reads *)

\* extract-w2 answers with success only after an upload of the same user,
\* and only for a file that is there; every other answer is an error that
\* leaves the rows as they were
ExtractionAfterUpload ==
    \A token \in ValidTokens, doc \in FormDocuments :
        ExtractW2(token, doc) =>
            IF response'.status = 200
            THEN /\ Done("upload-w2", token.uid) \in succeeded
                 /\ doc.file = "pdf"
            ELSE /\ response'.status \in {400, 404, 500}
                 /\ users' = users

\* GET /w2-data answers 404 as long as no extract-w2 of the user succeeded
ReadAfterExtraction ==
    \A token \in ValidTokens :
        (GetW2Data(token) /\ Done("extract-w2", token.uid) \notin succeeded) =>
            response'.status = 404

\* C21: the document is read before extracting and extraction precedes
\* reading its result.  For each user, extract-w2 succeeds and stores a
\* record only if an upload-w2 of that user succeeded earlier and its file
\* still exists; otherwise it answers 400, 404 or 500 and leaves the user
\* record unchanged; and GET /w2-data answers 404 until some extract-w2 of
\* that user has succeeded.
C21_UploadExtractReadOrder ==
    [][ExtractionAfterUpload /\ ReadAfterExtraction]_vars


\* In a step that answers extract-w2 with 200: the stored w2Data is the
\* record of the response, the record has an extraction timestamp, and the
\* income keys other than w2Data and those of `written` are the keys the
\* mapping had, with their values.
ExtractedRecordStored(written) ==
    (response'.route = "extract-w2" /\ response'.status = 200) =>
        LET old == users[request'.token.uid].income
            new == users'[request'.token.uid].income
        IN /\ ~new.null
           /\ (DOMAIN new.m) \ written = (Keys(old) \cup {"w2Data"}) \ written
           /\ new.m["w2Data"] = response'.data
           /\ "extractionDate" \in DOMAIN response'.data.o
           /\ ~response'.data.o.extractionDate.null
           /\ \A key \in (Keys(old) \ {"w2Data"}) \ written : new.m[key] = old.m[key]

\* C22: after a successful extract-w2 the stored income.w2Data is exactly the
\* record of the response, the record carries an extraction timestamp, and
\* every other key of the income mapping has the value it had before the
\* request: the record is merged into the mapping, not put in its place.
C22_ExtractedRecordMerged == [][ExtractedRecordStored({})]_vars

\* C22, amended: as above, for every key of the income mapping other than
\* w2Data and lastW2Extraction (the timestamp the mocked extraction writes
\* next to the record).
C22_ExtractedRecordMergedBesideStamp ==
    [][ExtractedRecordStored({"lastW2Extraction"})]_vars

\* an extract-w2 was answered with 200 for a row whose income holds the wages
\* an earlier PUT /me stored, next to the record of the response
C22_Witness ==
    /\ response.route = "extract-w2" /\ response.status = 200
    /\ text = "Wages: 30,000.01"
    /\ LET income == users["u1"].income
       IN /\ Keys(income) = {"wages", "w2Data"}
          /\ income.m["wages"] = JNum(5000000)
          /\ income.m["w2Data"] = response.data
          /\ response.data.o.box1_wages = Str("30000.01")

\* C27: once extract-w2 has succeeded for a user, the stored record stays
\* what it is through every later request that is no extract-w2 (a PUT /me
\* profile update and a generate-1098 among them), and GET /w2-data of that
\* user keeps answering with it.
C27_W2DataPersists ==
    [][\A u \in DOMAIN users :
          ( /\ Done("extract-w2", u) \in succeeded
            /\ HasTruthy(users[u].income, "w2Data")
            /\ request'.route # "extract-w2" ) =>
              /\ HasTruthy(users'[u].income, "w2Data")
              /\ users'[u].income.m["w2Data"] = users[u].income.m["w2Data"]
              /\ ( /\ request'.route = "w2-data"
                   /\ auth(request'.token)
                   /\ ReqUserId(request'.token) = u ) =>
                     /\ response'.status = 200
                     /\ response'.data = users[u].income.m["w2Data"]]_vars

-----------------------------------------------------------------------------
(* The 1098 form *)

\* the box 1 value the thresholds give for the stored W-2 record of a row
Box1For(user) ==
    LET wages == IF HasTruthy(user.income, "w2Data")
                 THEN parseFloat(Box1WagesOf(user.income.m["w2Data"]))
                 ELSE parseFloat("0")
    IN IF Above(wages, 30000) THEN "2500.00"
       ELSE IF Above(wages, 20000) THEN "1500.00"
       ELSE IF Above(wages, 10000) THEN "800.00"
       ELSE "0.00"

\* GET /1098-data and GET /download-1098 answer 404 as long as no
\* generate-1098 of the user succeeded
ReadAfterGenerate ==
    \A token \in ValidTokens :
        ( /\ Get1098Data(token) \/ Download1098(token)
          /\ Done("generate-1098", token.uid) \notin succeeded ) =>
            response'.status = 404

\* a successful generate-1098 stores the record it answers with, with the
\* box 1 value of the thresholds, and leaves the other deductions
GenerateStoresRecord ==
    \A token \in ValidTokens :
        (Generate1098(token) /\ response'.status = 200) =>
            LET old == users[token.uid].deductions
                new == users'[token.uid].deductions
            IN /\ ~new.null
               /\ DOMAIN new.m = Keys(old) \cup {"form1098Data"}
               /\ new.m["form1098Data"] = response'.data
               /\ response'.data.o.box1_studentLoanInterest
                     = Str(Box1For(users[token.uid]))
               /\ \A key \in Keys(old) \ {"form1098Data"} : new.m[key] = old.m[key]

\* GET /1098-data answers with the stored record
ReadReturnsRecord ==
    \A token \in ValidTokens :
        (Get1098Data(token) /\ response'.status = 200) =>
            response'.data = users[token.uid].deductions.m["form1098Data"]

\* C29: the 1098 flow is ordered.  For each user GET /1098-data and GET
\* /download-1098 answer 404 until a generate-1098 of that user has
\* succeeded; afterwards GET /1098-data returns the generated record, whose
\* box 1 value is '2500.00', '1500.00', '800.00' or '0.00' as the stored W-2
\* wages exceed 30000, 20000, 10000 or none of them ('0.00' without W-2
\* data); generate-1098 leaves the other keys of the deductions unchanged.
C29_Form1098FlowOrdered ==
    [][ReadAfterGenerate /\ GenerateStoresRecord /\ ReadReturnsRecord]_vars


-----------------------------------------------------------------------------
(* The middleware and the identity of the request *)

\* the routes behind the middleware: every route of the model but the
\* creation of an account
Guarded(route) == route \notin {"none", "register"}

\* C24: the middleware lets a request reach its handler only when a token is
\* present and verifies.  A request without a token, or with a token that
\* fails verification, is answered with 401 and changes no user row, no
\* dependent and no stored record; an answer other than 401 is given only to
\* a request whose token verifies.
C24_UnauthenticatedRejected ==
    [][Guarded(request'.route) =>
          /\ request'.token.kind # "valid" =>
                /\ response'.status = 401
                /\ UNCHANGED <<users, dependents, nextDepId, succeeded, text>>
          /\ response'.status # 401 => request'.token.kind = "valid"]_vars

\* a token that fails verification was refused on extract-w2 for an account
\* with an uploaded file, and a request without a token on PUT /me
C24_Witness ==
    /\ response.status = 401
    /\ "u1" \in DOMAIN users
    /\ ~users["u1"].w2FileName.null
    /\ \/ request.route = "extract-w2" /\ request.token = BadToken
       \/ request.route = "me" /\ request.token = NoToken

\* C25: a request that passes the middleware with a token whose payload
\* identifies user U is served from U's row: the key the handler reads is
\* the one the middleware set, so the valid token of an existing user is
\* never answered with 'User not found'.
C25_TokenResolvesToOwnUser ==
    ( /\ request.route \in {"get-me", "dashboard"}
      /\ request.token.kind = "valid"
      /\ request.token.uid \in DOMAIN users ) =>
        response.status = 200


-----------------------------------------------------------------------------
(* The server process: startServer, the signal handlers, and the requests  *)
(* served in between.  pc is where startServer stands; closing holds the   *)
(* signals whose handler awaits sequelize.close().                         *)

\* the process when startServer() is called
Starting ==
    [ pc |-> "authenticate", authenticated |-> FALSE, synced |-> FALSE, db |-> "open",
      listening |-> FALSE, exited |-> FALSE, code |-> 0, closing |-> {} ]

Signals == {"SIGTERM", "SIGINT"}

\* what the process steps leave alone
appVars ==
    <<text, patterns, fn, result, users, dependents, nextDepId, request, response,
      inflight, succeeded>>

\* process.exit(code)
Exit(code) == [server EXCEPT !.exited = TRUE, !.code = code]

\* await sequelize.authenticate() resolves
AuthenticateOk ==
    /\ ~server.exited
    /\ server.pc = "authenticate"
    /\ server.db = "open"
    /\ server' = [server EXCEPT !.pc = "sync", !.authenticated = TRUE]
    /\ UNCHANGED appVars

\* await sequelize.authenticate() rejects: catch, process.exit(1)
AuthenticateFails ==
    /\ ~server.exited
    /\ server.pc = "authenticate"
    /\ server' = [Exit(1) EXCEPT !.pc = "failed"]
    /\ UNCHANGED appVars

\* await sequelize.sync({ alter: true }) resolves and app.listen is called;
\* bound: the port could be bound (a listen error is thrown out of the
\* process, which ends with code 1)
SyncOk(bound) ==
    /\ ~server.exited
    /\ server.pc = "sync"
    /\ server.db = "open"
    /\ server' = IF bound
                 THEN [server EXCEPT !.pc = "done", !.synced = TRUE, !.listening = TRUE]
                 ELSE [Exit(1) EXCEPT !.pc = "done", !.synced = TRUE]
    /\ UNCHANGED appVars

\* await sequelize.sync({ alter: true }) rejects: catch, process.exit(1)
SyncFails ==
    /\ ~server.exited
    /\ server.pc = "sync"
    /\ server' = [Exit(1) EXCEPT !.pc = "failed"]
    /\ UNCHANGED appVars

\* process.on(sig, ...): the handler runs up to await sequelize.close()
Signal(sig) ==
    /\ ~server.exited
    /\ sig \notin server.closing
    /\ server' = [server EXCEPT !.closing = @ \cup {sig}]
    /\ UNCHANGED appVars

\* sequelize.close() has closed the connections
CloseDone ==
    /\ ~server.exited
    /\ server.closing # {}
    /\ server.db = "open"
    /\ server' = [server EXCEPT !.db = "closed"]
    /\ UNCHANGED appVars

\* sequelize.close() rejects: the handler throws, the rejection is unhandled
CloseFails(sig) ==
    /\ ~server.exited
    /\ sig \in server.closing
    /\ server.db = "open"
    /\ server' = Exit(1)
    /\ UNCHANGED appVars

\* a handler that does not await the close
ExitAfterClose_early(sig) ==
    /\ ~server.exited
    /\ sig \in server.closing
    /\ server' = Exit(0)
    /\ UNCHANGED appVars

\* the handler after await sequelize.close(): process.exit(0)
ExitAfterClose(sig) ==
    /\ ~server.exited
    /\ sig \in server.closing
    /\ server.db = "closed"
    /\ server' = Exit(0)
    /\ UNCHANGED appVars

\* a new account, while the server listens and the database answers
ServeRegister(u) ==
    /\ server.listening /\ ~server.exited /\ server.db = "open"
    /\ Register(u)

\* GET /me while the server listens; once the connections are closed
\* findByPk throws and the catch block answers 500
ServeGetMe(token) ==
    /\ server.listening /\ ~server.exited
    /\ IF server.db = "open"
       THEN GetMe(token)
       ELSE /\ request' = Request("get-me", token)
            /\ response' = IF auth(token) THEN Respond("get-me", 500, NoCalculation)
                           ELSE Unauthorized("get-me")
            /\ UNCHANGED <<users, dependents, nextDepId, extractVars, inflight,
                           succeeded, server>>

InitServer ==
    /\ text = ""
    /\ patterns = NoPatterns
    /\ fn = "none"
    /\ result = Null
    /\ users = <<>>
    /\ dependents = {}
    /\ nextDepId = 1
    /\ request = [route |-> "none", token |-> NoToken]
    /\ response = [route |-> "none", status |-> 0, calculation |-> NoCalculation]
    /\ inflight = <<>>
    /\ succeeded = {}
    /\ server = Starting

NextServer ==
    \/ AuthenticateOk
    \/ AuthenticateFails
    \/ \E bound \in BOOLEAN : SyncOk(bound)
    \/ SyncFails
    \/ \E sig \in Signals : Signal(sig)
    \/ CloseDone
    \/ \E sig \in Signals : CloseFails(sig)
    \/ \E sig \in Signals : ExitAfterClose(sig)
    \/ \E u \in UserIds : ServeRegister(u)
    \/ \E token \in Tokens : ServeGetMe(token)

SpecServer == InitServer /\ [][NextServer]_vars

\* C30: the server starts listening only after the connection check and the
\* synchronisation of the models have both completed with success, in that
\* order; when either fails the process exits with code 1 and never starts
\* listening; after SIGTERM or SIGINT the database connection is closed
\* before the process exits with code 0; an exited process does nothing.
C30_StartupAndShutdownOrdered ==
    [][/\ (server'.synced /\ ~server.synced) => server.authenticated
       /\ server'.listening => (server'.authenticated /\ server'.synced)
       /\ (server'.pc = "failed" /\ server.pc # "failed") =>
             /\ server'.exited
             /\ server'.code = 1
             /\ ~server'.listening
       /\ server.pc = "failed" => ~server'.listening
       /\ (server'.exited /\ ~server.exited /\ server'.code = 0) =>
             /\ server.closing # {}
             /\ server.db = "closed"
       /\ server.exited => UNCHANGED vars]_vars

\* the server listened and served a request, was told to stop, closed the
\* connection and exited with code 0
C30_Witness ==
    /\ server.exited /\ server.code = 0
    /\ server.listening
    /\ server.db = "closed"
    /\ server.closing = {"SIGTERM"}
    /\ response.route = "get-me" /\ response.status = 200

=============================================================================
